---------------------------- MODULE Spec2Model ----------------------------
(***************************************************************************)
(* Model of the rhythm-authentication core: the enrollment accumulator     *)
(* (enrollment.py), the matcher (matcher.py), its use from two threads     *)
(* and from the command-line login, the rhythm analyzer                    *)
(* (rhythm_analyzer.py), the feature extractor                             *)
(* (optimized_feature_extractor.py), the Morse table (morse_codes.py),     *)
(* the two registration drivers (main_enhanced.py, enrollment_ui.py) and   *)
(* the tap recording (tap_listener.py, enrollment_ui.py).                  *)
(*                                                                         *)
(* Numbers.  The code computes with floats; the model computes exactly on  *)
(* fixed-point grids:                                                      *)
(*   - rhythm metrics (pattern_accuracy, ...) are in hundredths: 100 is    *)
(*     1.0, 85 is 0.85;                                                    *)
(*   - a quality score is in thousandths: 1000 is 1.0;                     *)
(*   - a base threshold (Matcher.threshold, recommended_threshold,         *)
(*     MIN_THRESHOLD) and a vector component are in tenths: 25 is 2.5;     *)
(*   - TOLERANCE_MULTIPLIER is in tenths (12 is 1.2), so an effective      *)
(*     threshold, base * multiplier, is in hundredths: 300 is 3.0;         *)
(*   - a covariance entry is in units of 1e-4, the size of the code's      *)
(*     regularisation term.                                                *)
(* An optional value (None, or a missing argument) is <<>>, a present one  *)
(* <<v>>.  A dict is a function whose DOMAIN is its set of keys.           *)
(***************************************************************************)
EXTENDS Integers, Sequences, FiniteSets, TLC

VARIABLES
    min_samples,            \* Enrollment.min_samples
    max_samples,            \* Enrollment.max_samples
    samples,                \* Enrollment.samples: accepted feature vectors
    qualities,              \* Enrollment.qualities: their quality scores
    threshold,              \* Matcher.threshold (optional)
    metric,                 \* Matcher.metric
    use_dynamic_threshold,  \* Matcher.use_dynamic_threshold
    call,                   \* the last call made: its name and arguments (and,
                            \* for build_profile, the weights it computed)
    ret,                    \* what the last call returned
    threads,                \* the calls in progress on the matcher, one per thread
    session,                \* the command-line program: at its menu, or terminated
    registration,           \* a registration in progress: the driver's locals
    recording               \* a tap recording: press and release times, key state

vars == <<min_samples, max_samples, samples, qualities,
          threshold, metric, use_dynamic_threshold, call, ret, threads, session,
          registration, recording>>

driver_vars == <<threads, session>>
ui_vars == <<registration, recording>>

enrollment_vars == <<min_samples, max_samples, samples, qualities>>
matcher_vars == <<threshold, metric, use_dynamic_threshold>>

None == <<>>
Some(v) == <<v>>

Max(a, b) == IF a >= b THEN a ELSE b
Min(a, b) == IF a <= b THEN a ELSE b

\* dict.get(key, default)
Get(d, key, default) == IF key \in DOMAIN d THEN d[key] ELSE default

\* np.clip(x, lo, hi)
Clip(x, lo, hi) == Max(lo, Min(hi, x))

NoCall == [op |-> "none"]

\* No registration in progress, no recording in progress
NoRegistration == [pc |-> "none"]
NoRecording == [pc |-> "none"]

RECURSIVE SumSeq(_)
SumSeq(s) == IF s = <<>> THEN 0 ELSE Head(s) + SumSeq(Tail(s))

Abs(x) == IF x < 0 THEN -x ELSE x

\* A call that ended in an exception instead of a return value
Raised(op, exception) == [op |-> op, raised |-> exception]

HasRaised(r) == "raised" \in DOMAIN r

-----------------------------------------------------------------------------
(***************************************************************************)
(* Enrollment (enrollment.py)                                              *)
(***************************************************************************)

\* The largest number of stored samples the model explores.
MaxStored == 3

\* Constructor arguments: the default (3, 5) that both registration drivers
\* use, and a small session whose max_samples lies below MaxStored.
EnrollmentConfigs == { <<3, 5>>, <<1, 2>> }

\* Feature vectors handed to add (two components stand for the 32).
FeatureVectors == { <<10, 10>>, <<10, 30>> }

\* Metric records handed to add, every value in the documented range [0, 1]
\* (enrollment.py:21-23; the analyzer clamps each score to it).  The
\* analyzer's records carry no outlier_ratio key, so the key is optional.
MetricsBase ==
    [ pattern_accuracy  : {99, 100},
      timing_precision  : {84, 85, 90},
      tempo_consistency : {60} ]

OutlierRatios == {10, 25, 26}

RhythmMetrics ==
    MetricsBase \cup
    { m @@ [outlier_ratio |-> o] : m \in MetricsBase, o \in OutlierRatios }

\* Faulty variant: complete only while exactly min_samples are stored.
is_complete_exactly_min == Len(samples) = min_samples

\* Faulty variant: complete one sample early.
is_complete_one_short == Len(samples) + 1 >= min_samples

is_complete == Len(samples) >= min_samples

can_accept_more_off_by_one == Len(samples) <= max_samples

can_accept_more == Len(samples) < max_samples

\* Faulty variant: the quality without its outlier term.
_compute_quality_no_outlier_term(metrics) ==
    Clip(4 * metrics["timing_precision"] + 3 * metrics["tempo_consistency"]
           + 2 * metrics["pattern_accuracy"] + 100, 0, 1000)

\* 0.40*timing + 0.30*tempo + 0.20*pattern + 0.10*(1 - outlier_ratio),
\* clipped to [0, 1]; in thousandths.
_compute_quality(metrics) ==
    LET timing        == metrics["timing_precision"]
        tempo         == metrics["tempo_consistency"]
        pattern       == metrics["pattern_accuracy"]
        outlier_ratio == Get(metrics, "outlier_ratio", 0)
        outlier_score == 100 - outlier_ratio
        quality       == 4 * timing + 3 * tempo + 2 * pattern + 1 * outlier_score
    IN  Clip(quality, 0, 1000)

\* Faulty variant: the gate without its outlier check.
_passes_gate_no_outlier_check(metrics) ==
    IF metrics["pattern_accuracy"] < 100 THEN
        [accepted |-> FALSE, reason |-> Some("Pattern mismatch")]
    ELSE IF metrics["timing_precision"] < 85 THEN
        [accepted |-> FALSE, reason |-> Some("Timing precision too low")]
    ELSE
        [accepted |-> TRUE, reason |-> None]

\* Faulty variant: the gate with the timing check ahead of the pattern check.
_passes_gate_timing_first(metrics) ==
    IF metrics["timing_precision"] < 85 THEN
        [accepted |-> FALSE, reason |-> Some("Timing precision too low")]
    ELSE IF metrics["pattern_accuracy"] < 100 THEN
        [accepted |-> FALSE, reason |-> Some("Pattern mismatch")]
    ELSE IF Get(metrics, "outlier_ratio", 0) > 25 THEN
        [accepted |-> FALSE, reason |-> Some("Too many rhythm outliers")]
    ELSE
        [accepted |-> TRUE, reason |-> None]

\* The hard gate: (accepted, reason).
_passes_gate(metrics) ==
    IF metrics["pattern_accuracy"] < 100 THEN
        [accepted |-> FALSE, reason |-> Some("Pattern mismatch")]
    ELSE IF metrics["timing_precision"] < 85 THEN
        [accepted |-> FALSE, reason |-> Some("Timing precision too low")]
    ELSE IF Get(metrics, "outlier_ratio", 0) > 25 THEN
        [accepted |-> FALSE, reason |-> Some("Too many rhythm outliers")]
    ELSE
        [accepted |-> TRUE, reason |-> None]

\* Faulty variant: the sample is stored before the gate's verdict is looked at.
StoreIfAccepted_always(list, entry, accepted) == Append(list, entry)

\* `if accepted: list.append(entry)`
StoreIfAccepted(list, entry, accepted) ==
    IF accepted THEN Append(list, entry) ELSE list

\* Enrollment.add(feature_vector, rhythm_metrics)
add(feature_vector, rhythm_metrics) ==
    LET quality == _compute_quality(rhythm_metrics)
        gate    == _passes_gate(rhythm_metrics)
    IN  /\ samples'   = StoreIfAccepted(samples, feature_vector, gate.accepted)
        /\ qualities' = StoreIfAccepted(qualities, quality, gate.accepted)
        /\ call' = [op |-> "add", feature_vector |-> feature_vector,
                    rhythm_metrics |-> rhythm_metrics]
        /\ ret' = [op |-> "add",
                   status |-> IF gate.accepted THEN "accepted" ELSE "rejected",
                   quality_score |-> quality,
                   rejection_reason |-> gate.reason,
                   samples_collected |-> Len(samples'),
                   samples_needed |-> Max(0, min_samples - Len(samples'))]
        /\ UNCHANGED <<min_samples, max_samples, matcher_vars, driver_vars>>

\* A caller's add: the core puts no condition on it (can_accept_more is the
\* caller's to consult); the model stops at MaxStored stored samples.
Add ==
    /\ Len(samples) < MaxStored
    /\ \E fv \in FeatureVectors, m \in RhythmMetrics : add(fv, m)
    /\ UNCHANGED ui_vars

\* weights = np.array(self.qualities); weights = weights / np.sum(weights).
\* A weight is kept exact, as the fraction <<quality, sum of qualities>>.
Weights_uniform(self_qualities) ==
    [i \in 1..Len(self_qualities) |-> <<1, Len(self_qualities)>>]

Weights(self_qualities) ==
    [i \in 1..Len(self_qualities) |-> <<self_qualities[i], SumSeq(self_qualities)>>]

\* np.average(self.samples, axis=0, weights=weights): component j is
\* sum_i w_i * x_ij / sum_i w_i, kept as the fraction of the two sums'
\* numerators (the weights share one denominator).
WeightedMean(self_samples, weights) ==
    [j \in 1..Len(self_samples[1]) |->
        << SumSeq([i \in 1..Len(weights) |-> weights[i][1] * self_samples[i][j]]),
           SumSeq([i \in 1..Len(weights) |-> weights[i][1]]) >>]

\* float(np.clip(1.0 - np.std(self.qualities), 0.0, 1.0)).  The variance of
\* the qualities is the fraction <<n * sum q^2 - (sum q)^2, n^2>>, in
\* thousandths squared; 1 - std is below 0 when the variance is above 1 and
\* never above 1.
ConsistencyScore(self_qualities) ==
    LET n == Len(self_qualities)
        squares == SumSeq([i \in 1..n |-> self_qualities[i] * self_qualities[i]])
        total == SumSeq(self_qualities)
        variance == << n * squares - total * total, n * n >>
    IN  IF variance[1] > 1000000 * variance[2]
        THEN [k |-> "0.0", variance |-> variance]
        ELSE [k |-> "1.0 - std", variance |-> variance]

\* Faulty variant: an empty session yields an empty profile.
build_profile_empty_profile(self_samples, self_qualities) ==
    IF Len(self_qualities) = 0
    THEN [op |-> "build_profile", mean_vector |-> <<>>, sample_count |-> 0,
          consistency_score |-> [k |-> "1.0 - std", variance |-> <<0, 1>>]]
    ELSE [op |-> "build_profile",
          mean_vector |-> WeightedMean(self_samples, Weights(self_qualities)),
          sample_count |-> Len(self_samples),
          consistency_score |-> ConsistencyScore(self_qualities)]

\* Enrollment.build_profile.  With no accepted sample the weights are the
\* empty array, their sum is 0.0 and np.average raises ZeroDivisionError
\* ("Weights sum to zero, can't be normalized").
build_profile(self_samples, self_qualities) ==
    IF Len(self_qualities) = 0
    THEN Raised("build_profile", "ZeroDivisionError")
    ELSE [op |-> "build_profile",
          mean_vector |-> WeightedMean(self_samples, Weights(self_qualities)),
          sample_count |-> Len(self_samples),
          consistency_score |-> ConsistencyScore(self_qualities)]

\* A caller's build_profile: it reads the session and writes nothing.
BuildProfile ==
    /\ call' = [op |-> "build_profile", weights |-> Weights(qualities)]
    /\ ret' = build_profile(samples, qualities)
    /\ UNCHANGED <<enrollment_vars, matcher_vars, driver_vars, ui_vars>>

\* Enrollment.__init__ (matcher fields idle: the drivers' Matcher)
InitEnrollment ==
    /\ \E cfg \in EnrollmentConfigs :
          /\ min_samples = cfg[1]
          /\ max_samples = cfg[2]
    /\ samples = <<>>
    /\ qualities = <<>>
    /\ threshold = None
    /\ metric = "euclidean"
    /\ use_dynamic_threshold = TRUE
    /\ call = NoCall
    /\ ret = NoCall
    /\ threads = <<>>
    /\ session = "menu"
    /\ registration = NoRegistration
    /\ recording = NoRecording

NextEnrollment == Add

SpecEnrollment == InitEnrollment /\ [][NextEnrollment]_vars

\* A registration that builds profiles: a few records of metrics (accepted
\* with different qualities, and rejected), and build_profile at any moment.
ProfileMetrics ==
    { [pattern_accuracy |-> 100, timing_precision |-> 85, tempo_consistency |-> 60],
      [pattern_accuracy |-> 100, timing_precision |-> 90, tempo_consistency |-> 60,
       outlier_ratio |-> 10],
      [pattern_accuracy |-> 99, timing_precision |-> 90, tempo_consistency |-> 60] }

AddSample ==
    /\ Len(samples) < MaxStored
    /\ \E fv \in FeatureVectors, m \in ProfileMetrics : add(fv, m)
    /\ UNCHANGED ui_vars

NextProfile == AddSample \/ BuildProfile

SpecProfile == InitEnrollment /\ [][NextProfile]_vars

-----------------------------------------------------------------------------
(***************************************************************************)
(* Matcher (matcher.py)                                                    *)
(*                                                                         *)
(* A distance is kept exact: [k |-> "lin", v |-> d] is the distance d, in  *)
(* hundredths; [k |-> "sqrt", v |-> q] is the square root of q, q in       *)
(* hundredths squared; [k |-> "nan", v |-> 0] is NaN.                      *)
(***************************************************************************)

MIN_THRESHOLD == 25

TOLERANCE_MULTIPLIER == 12

Lin(v) == [k |-> "lin", v |-> v]
Sqrt(q) == [k |-> "sqrt", v |-> q]
NaN == [k |-> "nan", v |-> 0]

\* float comparison `distance < t`, t a number of hundredths (NaN compares
\* false with everything)
Less(distance, t) ==
    CASE distance.k = "lin"  -> distance.v < t
      [] distance.k = "sqrt" -> distance.v < t * t
      [] OTHER               -> FALSE

\* float comparison `distance == t`
Equal(distance, t) ==
    CASE distance.k = "lin"  -> distance.v = t
      [] distance.k = "sqrt" -> distance.v = t * t
      [] OTHER               -> FALSE

\* Whether numpy can subtract two 1-d arrays: equal lengths, or one of them
\* of length 1 (which is then repeated); otherwise it raises ValueError.
Broadcastable(test_vector, mean_vector) ==
    \/ Len(test_vector) = Len(mean_vector)
    \/ Len(test_vector) = 1
    \/ Len(mean_vector) = 1

\* test_vector - mean_vector, for operands numpy can subtract
Diff(test_vector, mean_vector) ==
    [i \in 1..Max(Len(test_vector), Len(mean_vector)) |->
        test_vector[Min(i, Len(test_vector))] - mean_vector[Min(i, Len(mean_vector))]]

\* Matcher._normalize_profile: works on a copy; 'mean' from 'mean_vector',
\* 'std' from 'std_vector' or 'std_dev'.
_normalize_profile(profile) ==
    LET with_mean ==
            IF "mean" \notin DOMAIN profile /\ "mean_vector" \in DOMAIN profile
            THEN profile @@ [mean |-> profile["mean_vector"]]
            ELSE profile
        with_std ==
            IF "std" \notin DOMAIN with_mean
            THEN IF "std_vector" \in DOMAIN with_mean
                 THEN with_mean @@ [std |-> with_mean["std_vector"]]
                 ELSE IF "std_dev" \in DOMAIN with_mean
                      THEN with_mean @@ [std |-> with_mean["std_dev"]]
                      ELSE with_mean
            ELSE with_mean
    IN  with_std

\* np.linalg.norm(test_vector - mean_vector)
_euclidean_distance(test_vector, profile) ==
    LET diff == Diff(test_vector, profile["mean"])
    IN  Sqrt(100 * SumSeq([i \in DOMAIN diff |-> diff[i] * diff[i]]))

\* Faulty variant: the mean of the absolute differences instead of their sum.
_manhattan_distance_mean(test_vector, profile) ==
    LET diff == Diff(test_vector, profile["mean"])
    IN  Lin((10 * SumSeq([i \in DOMAIN diff |-> Abs(diff[i])])) \div Len(diff))

\* np.sum(np.abs(test_vector - mean_vector))
_manhattan_distance(test_vector, profile) ==
    LET diff == Diff(test_vector, profile["mean"])
    IN  Lin(10 * SumSeq([i \in DOMAIN diff |-> Abs(diff[i])]))

\* The diagonal of cov_matrix + np.eye(n) * 1e-4, in units of 1e-4.
Regularized(cov_matrix) ==
    [i \in 1..Len(cov_matrix) |-> cov_matrix[i][i] + 1]

\* Faulty variant: a failed inversion falls back to the manhattan distance.
_mahalanobis_distance_manhattan_fallback(test_vector, profile) ==
    IF "cov_matrix" \notin DOMAIN profile
       \/ Len(profile["cov_matrix"]) # Len(test_vector)
    THEN _euclidean_distance(test_vector, profile)
    ELSE LET reg  == Regularized(profile["cov_matrix"])
             diff == Diff(test_vector, profile["mean"])
         IN  IF \E i \in DOMAIN reg : reg[i] = 0
             THEN _manhattan_distance(test_vector, profile)
             ELSE LET form == SumSeq([i \in DOMAIN diff |->
                                 (1000000 \div reg[i]) * diff[i] * diff[i]])
                  IN  IF form < 0 THEN NaN ELSE Sqrt(form)

\* Matcher._mahalanobis_distance.  The covariance matrices of the model are
\* diagonal, so the inverse is the diagonal of reciprocals and np.linalg.inv
\* raises (singular matrix) exactly when a regularized entry is 0; their
\* regularized entries divide 10^6, so the quadratic form diff' C^-1 diff is
\* a whole number of hundredths squared.  A negative form makes np.sqrt
\* return NaN.
_mahalanobis_distance(test_vector, profile) ==
    IF "cov_matrix" \notin DOMAIN profile
       \/ Len(profile["cov_matrix"]) # Len(test_vector)
    THEN _euclidean_distance(test_vector, profile)
    ELSE LET reg  == Regularized(profile["cov_matrix"])
             diff == Diff(test_vector, profile["mean"])
         IN  IF \E i \in DOMAIN reg : reg[i] = 0
             THEN _euclidean_distance(test_vector, profile)
             ELSE LET form == SumSeq([i \in DOMAIN diff |->
                                 (1000000 \div reg[i]) * diff[i] * diff[i]])
                  IN  IF form < 0 THEN NaN ELSE Sqrt(form)

\* A confidence is kept symbolic: its kind and the (distance, threshold) it
\* was computed from.
Confidence(kind, operands) == [k |-> kind, of |-> operands]

\* Matcher._calculate_confidence
_calculate_confidence(distance, t) ==
    IF t = 0 THEN Confidence("0.0", <<>>)
    ELSE IF Less(distance, t)
         THEN Confidence("1.0 - distance / threshold", <<distance, t>>)
         ELSE Confidence("1.0 - threshold / distance", <<distance, t>>)

\* Whether a confidence is the float 0.0 (1 - t/d is 0 exactly when d == t;
\* 1 - d/t is computed only for d < t and is positive).
ConfidenceIsZero(c) ==
    \/ c.k = "0.0"
    \/ c.k = "1.0 - threshold / distance" /\ Equal(c.of[1], c.of[2])

\* Faulty variant: the multiplier applied to the base threshold, without the floor.
EffectiveThreshold_no_floor(base_threshold) ==
    base_threshold * TOLERANCE_MULTIPLIER

\* max(base_threshold, MIN_THRESHOLD) * TOLERANCE_MULTIPLIER, in hundredths
EffectiveThreshold(base_threshold) ==
    Max(base_threshold, MIN_THRESHOLD) * TOLERANCE_MULTIPLIER

\* Faulty variant: a distance equal to the threshold is accepted.
Decision_le(distance, effective_threshold) ==
    Less(distance, effective_threshold) \/ Equal(distance, effective_threshold)

\* accepted = distance < effective_threshold
Decision(distance, effective_threshold) == Less(distance, effective_threshold)

\* Faulty variant: the fallback for a profile without a mean reports distance 0.0.
MissingMeanResult_zero_distance ==
    [op |-> "authenticate", distance |-> Lin(0), accepted |-> FALSE,
     details |-> [distance |-> Lin(0), threshold |-> 0,
                  confidence |-> Confidence("1.0", <<>>)]]

\* return 999.0, False, {'distance': 999.0, 'threshold': 0.0, 'confidence': 1.0}
MissingMeanResult ==
    [op |-> "authenticate", distance |-> Lin(99900), accepted |-> FALSE,
     details |-> [distance |-> Lin(99900), threshold |-> 0,
                  confidence |-> Confidence("1.0", <<>>)]]

\* Matcher.authenticate(test_vector, profile) on the matcher `self`:
\* (distance, accepted, details).  Every distance function starts from
\* test_vector - mean_vector, and _mahalanobis_distance's handler calls
\* _euclidean_distance again, so operands numpy cannot subtract make the call
\* raise ValueError whatever the metric.
authenticate(self, test_vector, raw_profile) ==
    LET profile == _normalize_profile(raw_profile)
    IN  IF "mean" \notin DOMAIN profile THEN MissingMeanResult
        ELSE IF ~Broadcastable(test_vector, profile["mean"])
        THEN Raised("authenticate", "ValueError")
        ELSE
        LET base_threshold ==
                IF self.use_dynamic_threshold
                   /\ "recommended_threshold" \in DOMAIN profile
                THEN profile["recommended_threshold"]
                ELSE IF self.threshold # None THEN self.threshold[1] ELSE 20
            effective_threshold == EffectiveThreshold(base_threshold)
            distance ==
                CASE self.metric = "euclidean"   -> _euclidean_distance(test_vector, profile)
                  [] self.metric = "manhattan"   -> _manhattan_distance(test_vector, profile)
                  [] self.metric = "mahalanobis" -> _mahalanobis_distance(test_vector, profile)
                  [] OTHER                       -> _euclidean_distance(test_vector, profile)
            accepted == Decision(distance, effective_threshold)
            confidence == _calculate_confidence(distance, effective_threshold)
        IN  [op |-> "authenticate", distance |-> distance, accepted |-> accepted,
             details |-> [distance |-> distance,
                          threshold |-> effective_threshold,
                          margin |-> <<effective_threshold, distance>>,
                          confidence |-> confidence,
                          metric |-> self.metric]]

\* votes = sum(1 for m in metrics if results[m]['accepted'])
Votes(results) ==
    Cardinality({m \in DOMAIN results : results[m].accepted})

\* Faulty variant: two votes are always needed.
FinalDecision_majority_only(euclidean_accepted, votes) == votes >= 2

\* if results['euclidean']['accepted'] and votes >= 1: True; else votes >= 2
FinalDecision(euclidean_accepted, votes) ==
    IF euclidean_accepted /\ votes >= 1 THEN TRUE ELSE votes >= 2

\* f"{votes}/3"
VotesString(votes) == ToString(votes) \o "/3"

\* Matcher.authenticate_with_multiple_metrics(test_vector, profile) on the
\* matcher `self`: the results dict.  Each metric is run with self.metric
\* set to it and self.metric restored afterwards.  Nothing in the loop
\* catches an exception: one raised by the first authenticate call ends the
\* whole call.
authenticate_with_multiple_metrics(self, test_vector, raw_profile) ==
    LET profile == _normalize_profile(raw_profile)
        metrics == {"euclidean", "manhattan", "mahalanobis"}
        results ==
            [m \in metrics |->
                LET r == authenticate([self EXCEPT !.metric = m], test_vector, profile)
                IN  [distance |-> r.distance, accepted |-> r.accepted,
                     confidence |-> r.details.confidence]]
        votes == Votes(results)
        first == authenticate([self EXCEPT !.metric = "euclidean"], test_vector, profile)
    IN  IF HasRaised(first)
        THEN Raised("authenticate_with_multiple_metrics", first.raised)
        ELSE
        [op |-> "authenticate_with_multiple_metrics",
         euclidean |-> results["euclidean"],
         manhattan |-> results["manhattan"],
         mahalanobis |-> results["mahalanobis"],
         final_decision |-> FinalDecision(results["euclidean"].accepted, votes),
         avg_confidence |-> [mean_of |-> <<results["euclidean"].confidence,
                                           results["manhattan"].confidence,
                                           results["mahalanobis"].confidence>>],
         votes |-> VotesString(votes)]

\* The matcher as an object
Self == [threshold |-> threshold, metric |-> metric,
         use_dynamic_threshold |-> use_dynamic_threshold]

\* Constructor arguments
StaticThresholds == { None, Some(10), Some(35) }
MetricNames == { "euclidean", "manhattan", "mahalanobis", "cosine" }

\* Test vectors and profile means (two components stand for the 32).
TestVectors == { <<0, 0>>, <<20, 20>>, <<18, 24>>, <<30, 0>> }

\* Diagonal covariance matrices, entries in units of 1e-4: zero variance,
\* variance 4 - 1e-4, one that regularization makes singular, a negative
\* one, and one of the wrong dimension.
DiagonalMatrix(c) == << <<c, 0>>, <<0, c>> >>
CovMatrices ==
    { DiagonalMatrix(0), DiagonalMatrix(39999), DiagonalMatrix(-1),
      DiagonalMatrix(-10001), << <<39999>> >> }

\* Stored profiles: the mean under either field name; with or without a
\* recommended threshold and a covariance matrix; and records with no mean.
ProfilesWithMean ==
    LET base == [mean_vector |-> <<0, 0>>]
        thresholds == { base @@ [recommended_threshold |-> t] : t \in {10, 30} }
                      \cup { base }
        legacy == [mean |-> <<10, 0>>, sample_count |-> 3]
    IN  thresholds
        \cup { p @@ [cov_matrix |-> c] : p \in thresholds, c \in CovMatrices }
        \cup { legacy, legacy @@ [recommended_threshold |-> 10] }

ProfilesWithoutMean ==
    { [sample_count |-> 3],
      [sample_count |-> 3, recommended_threshold |-> 30],
      [std_vector |-> <<1, 1>>, recommended_threshold |-> 10] }

Profiles == ProfilesWithMean \cup ProfilesWithoutMean

\* A caller's authenticate
Authenticate ==
    \E t \in TestVectors, p \in Profiles :
        /\ call' = [op |-> "authenticate", test_vector |-> t, profile |-> p]
        /\ ret' = authenticate(Self, t, p)
        /\ UNCHANGED <<enrollment_vars, matcher_vars, driver_vars, ui_vars>>

\* self.metric once authenticate_with_multiple_metrics has ended: restored
\* after every metric that returned, left at the metric being tried (the
\* first) when authenticate raised.
MetricAfter(self, test_vector, raw_profile) ==
    IF HasRaised(authenticate_with_multiple_metrics(self, test_vector, raw_profile))
    THEN "euclidean"
    ELSE self.metric

\* A caller's authenticate_with_multiple_metrics
AuthenticateWithMultipleMetrics ==
    \E t \in TestVectors, p \in Profiles :
        /\ call' = [op |-> "authenticate_with_multiple_metrics",
                    test_vector |-> t, profile |-> p]
        /\ ret' = authenticate_with_multiple_metrics(Self, t, p)
        /\ metric' = MetricAfter(Self, t, p)
        /\ UNCHANGED <<enrollment_vars, threshold, use_dynamic_threshold, driver_vars, ui_vars>>

\* Matcher.__init__ (an enrollment session idle beside it)
InitMatcher ==
    /\ threshold \in StaticThresholds
    /\ metric \in MetricNames
    /\ use_dynamic_threshold \in BOOLEAN
    /\ min_samples = 3
    /\ max_samples = 5
    /\ samples = <<>>
    /\ qualities = <<>>
    /\ call = NoCall
    /\ ret = NoCall
    /\ threads = <<>>
    /\ session = "menu"
    /\ registration = NoRegistration
    /\ recording = NoRecording

NextMatcher == Authenticate \/ AuthenticateWithMultipleMetrics

SpecMatcher == InitMatcher /\ [][NextMatcher]_vars

-----------------------------------------------------------------------------
(***************************************************************************)
(* Two threads on one Matcher (signin_ui.py:76 keeps a single Matcher for  *)
(* the whole application).  Each thread runs                               *)
(* authenticate_with_multiple_metrics statement by statement; a step is    *)
(* one read or one write of the shared field self.metric together with the *)
(* thread-local work that follows it.                                      *)
(***************************************************************************)

ThreadIds == {1, 2}

\* metrics = ['euclidean', 'manhattan', 'mahalanobis']
MetricsList == <<"euclidean", "manhattan", "mahalanobis">>

\* Matcher(use_dynamic_threshold=True, metric='euclidean')
DriverMatcher == [threshold |-> None, metric |-> "euclidean",
                  use_dynamic_threshold |-> TRUE]

\* The arguments of the two calls.
ThreadTestVectors == { <<18, 24>>, <<20, 20>> }
ThreadProfiles ==
    { [mean_vector |-> <<0, 0>>],
      [mean_vector |-> <<0, 0>>, cov_matrix |-> DiagonalMatrix(39999)] }

\* A thread at the top of authenticate_with_multiple_metrics: the profile is
\* normalized, results is empty, the loop is at its first metric.
ThreadStart(test_vector, raw_profile) ==
    [pc |-> "save", test_vector |-> test_vector, raw_profile |-> raw_profile,
     profile |-> _normalize_profile(raw_profile),
     i |-> 1, original_metric |-> "",
     results |-> [m \in {"euclidean", "manhattan", "mahalanobis"} |-> None],
     computed_with |-> [m \in {"euclidean", "manhattan", "mahalanobis"} |-> ""],
     r |-> NoCall, out |-> None]

\* original_metric = self.metric
SaveMetric(t) ==
    /\ threads[t].pc = "save"
    /\ threads' = [threads EXCEPT ![t].original_metric = metric,
                                  ![t].pc = "set"]
    /\ UNCHANGED <<enrollment_vars, matcher_vars, call, ret, session, ui_vars>>

\* self.metric = metric; then authenticate is entered and runs up to its
\* first look at self.metric (a profile without a mean returns before it).
SetMetric(t) ==
    /\ threads[t].pc = "set"
    /\ metric' = MetricsList[threads[t].i]
    /\ threads' =
          IF "mean" \notin DOMAIN threads[t].profile
          THEN [threads EXCEPT ![t].r = MissingMeanResult, ![t].pc = "restore"]
          ELSE [threads EXCEPT ![t].pc = "is_euclidean"]
    /\ UNCHANGED <<enrollment_vars, threshold, use_dynamic_threshold, call, ret, session, ui_vars>>

\* authenticate's branch on the metric name found in self.metric: the rest
\* of authenticate runs with the distance function of that branch.
Dispatched(t, found) ==
    /\ threads' = [threads EXCEPT
          ![t].r = authenticate([Self EXCEPT !.metric = found],
                                threads[t].test_vector, threads[t].profile),
          ![t].computed_with[MetricsList[threads[t].i]] = found,
          ![t].pc = "restore"]

\* if self.metric == 'euclidean': ...
IsEuclidean(t) ==
    /\ threads[t].pc = "is_euclidean"
    /\ IF metric = "euclidean"
       THEN Dispatched(t, "euclidean")
       ELSE threads' = [threads EXCEPT ![t].pc = "is_manhattan"]
    /\ UNCHANGED <<enrollment_vars, matcher_vars, call, ret, session, ui_vars>>

\* elif self.metric == 'manhattan': ...
IsManhattan(t) ==
    /\ threads[t].pc = "is_manhattan"
    /\ IF metric = "manhattan"
       THEN Dispatched(t, "manhattan")
       ELSE threads' = [threads EXCEPT ![t].pc = "is_mahalanobis"]
    /\ UNCHANGED <<enrollment_vars, matcher_vars, call, ret, session, ui_vars>>

\* elif self.metric == 'mahalanobis': ... else: (euclidean)
IsMahalanobis(t) ==
    /\ threads[t].pc = "is_mahalanobis"
    /\ IF metric = "mahalanobis"
       THEN Dispatched(t, "mahalanobis")
       ELSE Dispatched(t, "euclidean")
    /\ UNCHANGED <<enrollment_vars, matcher_vars, call, ret, session, ui_vars>>

\* results[metric] = {...}; self.metric = original_metric; next metric
RestoreMetric(t) ==
    /\ threads[t].pc = "restore"
    /\ metric' = threads[t].original_metric
    /\ threads' = [threads EXCEPT
          ![t].results[MetricsList[threads[t].i]] =
              Some([distance |-> threads[t].r.distance,
                    accepted |-> threads[t].r.accepted,
                    confidence |-> threads[t].r.details.confidence]),
          ![t].i = IF threads[t].i < Len(MetricsList) THEN threads[t].i + 1
                   ELSE threads[t].i,
          ![t].pc = IF threads[t].i < Len(MetricsList) THEN "save" ELSE "vote"]
    /\ UNCHANGED <<enrollment_vars, threshold, use_dynamic_threshold, call, ret, session, ui_vars>>

\* The statements after the loop: votes, final_decision, the summary keys,
\* return results.
ReturnResults(t) ==
    /\ threads[t].pc = "vote"
    /\ LET results == [m \in DOMAIN threads[t].results |-> threads[t].results[m][1]]
           votes == Votes(results)
       IN  threads' = [threads EXCEPT
              ![t].out = Some(
                 [op |-> "authenticate_with_multiple_metrics",
                  euclidean |-> results["euclidean"],
                  manhattan |-> results["manhattan"],
                  mahalanobis |-> results["mahalanobis"],
                  final_decision |-> FinalDecision(results["euclidean"].accepted, votes),
                  avg_confidence |-> [mean_of |-> <<results["euclidean"].confidence,
                                                    results["manhattan"].confidence,
                                                    results["mahalanobis"].confidence>>],
                  votes |-> VotesString(votes)]),
              ![t].pc = "done"]
    /\ UNCHANGED <<enrollment_vars, matcher_vars, call, ret, session, ui_vars>>

\* The application's matcher, and a call entered by each thread.
InitThreads ==
    /\ threshold = DriverMatcher.threshold
    /\ metric = DriverMatcher.metric
    /\ use_dynamic_threshold = DriverMatcher.use_dynamic_threshold
    /\ min_samples = 3
    /\ max_samples = 5
    /\ samples = <<>>
    /\ qualities = <<>>
    /\ call = NoCall
    /\ ret = NoCall
    /\ session = "menu"
    /\ registration = NoRegistration
    /\ recording = NoRecording
    /\ threads \in [ThreadIds ->
          { ThreadStart(tv, p) : tv \in ThreadTestVectors, p \in ThreadProfiles }]

NextThreads ==
    \E t \in ThreadIds :
        \/ SaveMetric(t)
        \/ SetMetric(t)
        \/ IsEuclidean(t)
        \/ IsManhattan(t)
        \/ IsMahalanobis(t)
        \/ RestoreMetric(t)
        \/ ReturnResults(t)

SpecThreads == InitThreads /\ [][NextThreads]_vars

-----------------------------------------------------------------------------
(***************************************************************************)
(* The command-line login (main_enhanced.py): main() loops over its menu   *)
(* with no exception handler; authenticate_user hands the stored profile   *)
(* and the tapped vector to a fresh Matcher and catches KeyError only.     *)
(***************************************************************************)

\* Stored profiles whose mean has another length than the test vector: one
\* component more (a profile of another extractor version), and a single
\* component (which numpy repeats).
ProfilesOfOtherLength ==
    { [mean_vector |-> <<0, 0, 0>>],
      [mean |-> <<10, 0, 0>>, sample_count |-> 3],
      [mean_vector |-> <<0, 0, 0>>, cov_matrix |-> DiagonalMatrix(39999)],
      [mean_vector |-> <<10>>] }

\* user_data.get('biometric_profile'), non-empty
StoredProfiles == Profiles \cup ProfilesOfOtherLength

\* How a statement inside `try: ... except KeyError` leaves authenticate_user:
\* a KeyError is reported and the function goes on; any other exception
\* leaves authenticate_user and then main(), which ends the program.
AfterTry(outcome) ==
    IF HasRaised(outcome) /\ outcome.raised # "KeyError"
    THEN "terminated"
    ELSE "menu"

\* authenticate_user, for a user who is found, has a non-empty profile and
\* has tapped something.
authenticate_user(test_vector, profile) ==
    LET results == authenticate_with_multiple_metrics(DriverMatcher, test_vector, profile)
    IN  /\ call' = [op |-> "authenticate_with_multiple_metrics",
                    test_vector |-> test_vector, profile |-> profile]
        /\ ret' = results
        /\ session' = AfterTry(results)
        /\ UNCHANGED <<enrollment_vars, matcher_vars, threads, ui_vars>>

\* Menu choice 2
Login ==
    /\ session = "menu"
    /\ \E t \in TestVectors, p \in StoredProfiles : authenticate_user(t, p)

InitLogin ==
    /\ session = "menu"
    /\ registration = NoRegistration
    /\ recording = NoRecording
    /\ threshold = DriverMatcher.threshold
    /\ metric = DriverMatcher.metric
    /\ use_dynamic_threshold = DriverMatcher.use_dynamic_threshold
    /\ min_samples = 3
    /\ max_samples = 5
    /\ samples = <<>>
    /\ qualities = <<>>
    /\ call = NoCall
    /\ ret = NoCall
    /\ threads = <<>>

NextLogin == Login

SpecLogin == InitLogin /\ [][NextLogin]_vars

-----------------------------------------------------------------------------
(***************************************************************************)
(* A vote on a stored profile by a Matcher of any configuration: the       *)
(* stored mean may have another length than the tapped vector, and then    *)
(* authenticate raises inside the loop of                                  *)
(* authenticate_with_multiple_metrics.                                     *)
(***************************************************************************)

\* The caller's dict once the call has ended: _normalize_profile writes its
\* keys into `normalized`, a copy of the dict, and binds them to new arrays;
\* nothing is stored through `profile`.
CallerProfileAfter(raw_profile) == raw_profile

\* A caller's authenticate_with_multiple_metrics on a stored profile
VoteOnStoredProfile ==
    \E t \in TestVectors, p \in StoredProfiles :
        /\ call' = [op |-> "authenticate_with_multiple_metrics",
                    test_vector |-> t, profile |-> p,
                    profile_after |-> CallerProfileAfter(p)]
        /\ ret' = authenticate_with_multiple_metrics(Self, t, p)
        /\ metric' = MetricAfter(Self, t, p)
        /\ UNCHANGED <<enrollment_vars, threshold, use_dynamic_threshold, driver_vars, ui_vars>>

NextVote == VoteOnStoredProfile

SpecVote == InitMatcher /\ [][NextVote]_vars

-----------------------------------------------------------------------------
(***************************************************************************)
(* RhythmAnalyzer (rhythm_analyzer.py)                                     *)
(*                                                                         *)
(* Durations are whole numbers of a time unit.  A score is a pair          *)
(* <<lo, hi>> of hundredths that encloses the real value the code's        *)
(* formula denotes: lo = hi when the value is a whole number of hundredths *)
(* (0.0, 0.4, 0.5, 0.7 and 1.0 are kept exactly), otherwise lo and hi are  *)
(* the value rounded down and up.  overall_score is such a pair in units   *)
(* of 1e-4.  A password's morse_code, a string of patterns separated by    *)
(* spaces, is the sequence of its patterns, a pattern a sequence of "."    *)
(* and "-".                                                                *)
(***************************************************************************)

Floor(n, d) == n \div d
Ceil(n, d) == -((-n) \div d)

\* The score that is exactly v hundredths
Exactly(v) == <<v, v>>

\* The score n / d (d > 0)
Ratio(n, d) == <<Floor(100 * n, d), Ceil(100 * n, d)>>

\* Faulty variant: min(1, score), without the lower clamp.
Clamp01_upper_only(score) == <<Min(score[1], 100), Min(score[2], 100)>>

\* max(0, min(1, score))
Clamp01(score) == <<Clip(score[1], 0, 100), Clip(score[2], 0, 100)>>

\* xs.count(e), and the number of members below v, and up to v
CountOf(xs, e) == Len(SelectSeq(xs, LAMBDA x : x = e))
CountBelow(xs, v) == Len(SelectSeq(xs, LAMBDA x : x < v))
CountUpTo(xs, v) == Len(SelectSeq(xs, LAMBDA x : x <= v))

\* sorted(xs)[k - 1]: the k-th smallest value
Sorted(xs, k) ==
    CHOOSE v \in {xs[i] : i \in 1..Len(xs)} :
        /\ CountBelow(xs, v) < k
        /\ k <= CountUpTo(xs, v)

\* 4 * np.percentile(xs, 25), xs not empty: numpy interpolates linearly
\* between the two values around position 0.25 * (n - 1) of the sorted list.
Percentile25x4(xs) ==
    LET lo == (Len(xs) - 1) \div 4
        r  == (Len(xs) - 1) % 4
    IN  IF r = 0 THEN 4 * Sorted(xs, lo + 1)
        ELSE 4 * Sorted(xs, lo + 1) + r * (Sorted(xs, lo + 2) - Sorted(xs, lo + 1))

\* presses[presses < threshold] and presses[presses >= threshold], with
\* threshold = np.percentile(presses, 25) * 2.0
Dots(presses) == SelectSeq(presses, LAMBDA x : 2 * x < Percentile25x4(presses))
Dashes(presses) == SelectSeq(presses, LAMBDA x : 2 * x >= Percentile25x4(presses))

\* np.std(xs) / np.mean(xs), for xs of positive sum: the square root of
\* (n * sum x^2 - (sum x)^2) / (sum x)^2, rounded down and up to hundredths.
CoefficientOfVariation(xs) ==
    LET n == Len(xs)
        total == SumSeq(xs)
        squares == SumSeq([i \in 1..n |-> xs[i] * xs[i]])
        num == 10000 * (n * squares - total * total)
        den == total * total
        c == CHOOSE c \in 0..(100 * n) :
                 c * c * den <= num /\ num < (c + 1) * (c + 1) * den
    IN  <<c, IF c * c * den = num THEN c ELSE c + 1>>

\* RhythmAnalyzer._analyze_tempo_consistency
_analyze_tempo_consistency(presses, gaps) ==
    LET all_timings == IF Len(gaps) > 0 THEN presses \o gaps ELSE presses
    IN  IF Len(all_timings) < 2 THEN Exactly(50)
        ELSE IF SumSeq(all_timings) = 0 THEN Exactly(0)
        ELSE LET cv == CoefficientOfVariation(all_timings)
                 \* (cv - 0.3) / 0.7
                 excess == <<Floor(10 * (cv[1] - 30), 7), Ceil(10 * (cv[2] - 30), 7)>>
             IN  Clamp01(<<100 - excess[2], 100 - excess[1]>>)

\* count_accuracy * 0.4 + max(0, dot_accuracy) * 0.3 + max(0, dash_accuracy)
\* * 0.3, clamped to [0, 1]; each argument a fraction <<numerator,
\* denominator>>.
PatternScore(count_accuracy, dot_accuracy, dash_accuracy) ==
    LET c == count_accuracy
        d == <<Max(0, dot_accuracy[1]), dot_accuracy[2]>>
        h == <<Max(0, dash_accuracy[1]), dash_accuracy[2]>>
    IN  Clamp01(Ratio(4 * c[1] * d[2] * h[2] + 3 * d[1] * c[2] * h[2]
                          + 3 * h[1] * c[2] * d[2],
                      10 * c[2] * d[2] * h[2]))

RECURSIVE Flatten(_)
\* morse_code.replace(' ', '')
Flatten(patterns) ==
    IF patterns = <<>> THEN <<>> ELSE Head(patterns) \o Flatten(Tail(patterns))

\* RhythmAnalyzer._analyze_pattern_accuracy
_analyze_pattern_accuracy(presses, password_info) ==
    LET expected_elements == password_info["total_elements"]
        actual_elements == Len(presses)
        count_accuracy ==
            IF actual_elements >= expected_elements
            THEN <<Min(actual_elements, expected_elements), actual_elements>>
            ELSE <<actual_elements, expected_elements>>
        morse_pattern == Flatten(password_info["morse_code"])
        expected_dots == CountOf(morse_pattern, ".")
        expected_dashes == CountOf(morse_pattern, "-")
        dot_accuracy ==
            << Max(expected_dots, 1) - Abs(Len(Dots(presses)) - expected_dots),
               Max(expected_dots, 1) >>
        dash_accuracy ==
            << Max(expected_dashes, 1) - Abs(Len(Dashes(presses)) - expected_dashes),
               Max(expected_dashes, 1) >>
    IN  IF actual_elements = 0 THEN Exactly(0)
        ELSE IF Percentile25x4(presses) = 0
        THEN Ratio(count_accuracy[1], 2 * count_accuracy[2])
        ELSE PatternScore(count_accuracy, dot_accuracy, dash_accuracy)

\* Faulty variant: a class with a single member counts as perfectly
\* consistent.
Consistency_lone_member_perfect(xs) ==
    IF Len(xs) > 1 /\ SumSeq(xs) > 0
    THEN <<100 - CoefficientOfVariation(xs)[2], 100 - CoefficientOfVariation(xs)[1]>>
    ELSE Exactly(100)

\* 1.0 - (np.std(xs) / np.mean(xs)) if len(xs) > 1 and np.mean(xs) > 0
\* else 0.5
Consistency(xs) ==
    IF Len(xs) > 1 /\ SumSeq(xs) > 0
    THEN LET cv == CoefficientOfVariation(xs)
         IN  <<100 - cv[2], 100 - cv[1]>>
    ELSE Exactly(50)

\* RhythmAnalyzer._analyze_timing_precision
_analyze_timing_precision(presses) ==
    IF Len(presses) < 2 THEN Exactly(50)
    ELSE IF Percentile25x4(presses) = 0 THEN Exactly(0)
    ELSE LET dot_consistency == Consistency(Dots(presses))
             dash_consistency == Consistency(Dashes(presses))
         IN  Clamp01(<<Floor(dot_consistency[1] + dash_consistency[1], 2),
                       Ceil(dot_consistency[2] + dash_consistency[2], 2)>>)

\* RhythmAnalyzer._analyze_rhythm_stability (gaps is not used).  The
\* relative change of the halves' means is
\* |sum2 * n1 - sum1 * n2| / (n2 * sum1), and the score 1 - change / 0.4.
_analyze_rhythm_stability(presses, gaps) ==
    IF Len(presses) < 4 THEN Exactly(50)
    ELSE LET mid == Len(presses) \div 2
             first_half == SubSeq(presses, 1, mid)
             second_half == SubSeq(presses, mid + 1, Len(presses))
             sum1 == SumSeq(first_half)
             sum2 == SumSeq(second_half)
             n1 == Len(first_half)
             n2 == Len(second_half)
         IN  IF sum1 = 0 THEN Exactly(50)
             ELSE Clamp01(Ratio(4 * n2 * sum1 - 10 * Abs(sum2 * n1 - sum1 * n2),
                                4 * n2 * sum1))

\* Faulty variant: one class only scores the neutral 0.5.
_analyze_dot_dash_separation_neutral(presses) ==
    IF Len(presses) < 3 THEN Exactly(50)
    ELSE IF Percentile25x4(presses) = 0 THEN Exactly(0)
    ELSE LET dots == Dots(presses)
             dashes == Dashes(presses)
             ratio == <<SumSeq(dashes) * Len(dots), Len(dashes) * SumSeq(dots)>>
         IN  IF Len(dots) = 0 \/ Len(dashes) = 0 THEN Exactly(50)
             ELSE IF SumSeq(dots) = 0 THEN Exactly(0)
             ELSE Clamp01(Ratio(3 * ratio[2] - Abs(ratio[1] - 3 * ratio[2]),
                                3 * ratio[2]))

\* RhythmAnalyzer._analyze_dot_dash_separation.  actual_ratio is the
\* fraction mean(dashes) / mean(dots), or 0 (then the error is 1 and the
\* score 0) when the dots' mean is 0; the score is
\* 1 - |actual_ratio - 3| / 3.
_analyze_dot_dash_separation(presses) ==
    IF Len(presses) < 3 THEN Exactly(50)
    ELSE IF Percentile25x4(presses) = 0 THEN Exactly(0)
    ELSE LET dots == Dots(presses)
             dashes == Dashes(presses)
             ratio == <<SumSeq(dashes) * Len(dots), Len(dashes) * SumSeq(dots)>>
         IN  IF Len(dots) = 0 \/ Len(dashes) = 0 THEN Exactly(70)
             ELSE IF SumSeq(dots) = 0 THEN Exactly(0)
             ELSE Clamp01(Ratio(3 * ratio[2] - Abs(ratio[1] - 3 * ratio[2]),
                                3 * ratio[2]))

\* RhythmAnalyzer._empty_score (its 'details' is the empty dict)
_empty_score ==
    [op |-> "analyze_rhythm",
     overall_score |-> Exactly(0),
     tempo_consistency |-> Exactly(0),
     pattern_accuracy |-> Exactly(0),
     timing_precision |-> Exactly(0),
     rhythm_stability |-> Exactly(0),
     dot_dash_separation |-> Exactly(0)]

\* The five scores and their weighted sum (0.25, 0.30, 0.20, 0.15, 0.10),
\* overall_score in units of 1e-4.
Scores(presses, gaps, password_info) ==
    LET tempo_consistency == _analyze_tempo_consistency(presses, gaps)
        pattern_accuracy == _analyze_pattern_accuracy(presses, password_info)
        timing_precision == _analyze_timing_precision(presses)
        rhythm_stability == _analyze_rhythm_stability(presses, gaps)
        dot_dash_separation == _analyze_dot_dash_separation(presses)
        Weighted(b) == 25 * tempo_consistency[b] + 30 * pattern_accuracy[b]
                       + 20 * timing_precision[b] + 15 * rhythm_stability[b]
                       + 10 * dot_dash_separation[b]
    IN  [op |-> "analyze_rhythm",
         overall_score |-> <<Weighted(1), Weighted(2)>>,
         tempo_consistency |-> tempo_consistency,
         pattern_accuracy |-> pattern_accuracy,
         timing_precision |-> timing_precision,
         rhythm_stability |-> rhythm_stability,
         dot_dash_separation |-> dot_dash_separation]

\* Faulty variant: the scores are computed for an empty press list too.
analyze_rhythm_no_empty_check(presses, gaps, password_info) ==
    Scores(presses, gaps, password_info)

\* RhythmAnalyzer.analyze_rhythm (the scores; the 'details' entry of the
\* result, statistics of the presses, is left out)
analyze_rhythm(presses, gaps, password_info) ==
    IF Len(presses) = 0 THEN _empty_score
    ELSE Scores(presses, gaps, password_info)

\* morse_codes.MORSE_CODE: letters, digits, punctuation, and the space,
\* whose pattern is the word separator '/'
MORSE_CODE ==
    "A" :> <<".", "-">> @@
    "B" :> <<"-", ".", ".", ".">> @@
    "C" :> <<"-", ".", "-", ".">> @@
    "D" :> <<"-", ".", ".">> @@
    "E" :> <<".">> @@
    "F" :> <<".", ".", "-", ".">> @@
    "G" :> <<"-", "-", ".">> @@
    "H" :> <<".", ".", ".", ".">> @@
    "I" :> <<".", ".">> @@
    "J" :> <<".", "-", "-", "-">> @@
    "K" :> <<"-", ".", "-">> @@
    "L" :> <<".", "-", ".", ".">> @@
    "M" :> <<"-", "-">> @@
    "N" :> <<"-", ".">> @@
    "O" :> <<"-", "-", "-">> @@
    "P" :> <<".", "-", "-", ".">> @@
    "Q" :> <<"-", "-", ".", "-">> @@
    "R" :> <<".", "-", ".">> @@
    "S" :> <<".", ".", ".">> @@
    "T" :> <<"-">> @@
    "U" :> <<".", ".", "-">> @@
    "V" :> <<".", ".", ".", "-">> @@
    "W" :> <<".", "-", "-">> @@
    "X" :> <<"-", ".", ".", "-">> @@
    "Y" :> <<"-", ".", "-", "-">> @@
    "Z" :> <<"-", "-", ".", ".">> @@
    "0" :> <<"-", "-", "-", "-", "-">> @@
    "1" :> <<".", "-", "-", "-", "-">> @@
    "2" :> <<".", ".", "-", "-", "-">> @@
    "3" :> <<".", ".", ".", "-", "-">> @@
    "4" :> <<".", ".", ".", ".", "-">> @@
    "5" :> <<".", ".", ".", ".", ".">> @@
    "6" :> <<"-", ".", ".", ".", ".">> @@
    "7" :> <<"-", "-", ".", ".", ".">> @@
    "8" :> <<"-", "-", "-", ".", ".">> @@
    "9" :> <<"-", "-", "-", "-", ".">> @@
    "." :> <<".", "-", ".", "-", ".", "-">> @@
    "," :> <<"-", "-", ".", ".", "-", "-">> @@
    "?" :> <<".", ".", "-", "-", ".", ".">> @@
    "/" :> <<"-", ".", ".", "-", ".">> @@
    "@" :> <<".", "-", "-", ".", "-", ".">> @@
    " " :> <<"/">>

\* The largest number of characters in a password of the model.
MaxChars == 1

\* The largest number of presses in an arbitrary tap sequence of the model.
MaxPresses == 5

\* get_morse_password: morse_code is the patterns typed, total_elements the
\* sum of their lengths.
PasswordInfo(word) ==
    LET patterns == [i \in 1..Len(word) |-> MORSE_CODE[word[i]]]
    IN  [morse_code |-> patterns,
         total_elements |-> SumSeq([i \in 1..Len(patterns) |-> Len(patterns[i])])]

\* Passwords of table characters that are tapped as dots and dashes (all
\* but the space): every word of up to MaxChars characters, and the word
\* SOS.
Passwords ==
    { PasswordInfo(word) :
        word \in UNION { [1..n -> DOMAIN MORSE_CODE \ {" "}] : n \in 1..MaxChars }
                  \cup { <<"S", "O", "S">> } }

\* The press durations of a pattern tapped with canonical timing: a dot
\* lasts dot_duration, a dash 3 * dot_duration (get_expected_timing).
CanonicalPresses(password_info, dot_duration) ==
    LET morse_pattern == Flatten(password_info["morse_code"])
    IN  [i \in 1..Len(morse_pattern) |->
            IF morse_pattern[i] = "." THEN dot_duration ELSE 3 * dot_duration]

\* The gaps of the same sample: dot_duration between the elements.
CanonicalGaps(password_info, dot_duration) ==
    [i \in 1..(password_info["total_elements"] - 1) |-> dot_duration]

DotDurations == {1, 2}

\* analyze_rhythm on a canonical sample of a password
CanonicalCalls ==
    { [op |-> "analyze_rhythm",
       presses |-> CanonicalPresses(p, u),
       gaps |-> CanonicalGaps(p, u),
       password_info |-> p] : p \in Passwords, u \in DotDurations }

\* Arbitrary non-negative durations: press lists of up to MaxPresses
\* presses (the empty one included), a few gap lists, a few passwords (the
\* last is what the sign-in window passes for a user without a stored one).
Durations == {0, 1, 3, 8}
PressLists == UNION { [1..n -> Durations] : n \in 0..MaxPresses }
GapLists == { <<>>, <<1, 1>>, <<0, 0, 0>> }
PasswordInfos ==
    { PasswordInfo(<<"S", "O", "S">>), PasswordInfo(<<"E">>),
      [morse_code |-> <<>>, total_elements |-> 0] }

ArbitraryCalls ==
    { [op |-> "analyze_rhythm", presses |-> p, gaps |-> g, password_info |-> i] :
        p \in PressLists, g \in GapLists, i \in PasswordInfos }

\* The analyzer is a pure function: a run is one call, with its arguments
\* chosen at the start.
InitAnalyzer ==
    /\ call \in CanonicalCalls \cup ArbitraryCalls
    /\ ret = NoCall
    /\ threshold = DriverMatcher.threshold
    /\ metric = DriverMatcher.metric
    /\ use_dynamic_threshold = DriverMatcher.use_dynamic_threshold
    /\ min_samples = 3
    /\ max_samples = 5
    /\ samples = <<>>
    /\ qualities = <<>>
    /\ threads = <<>>
    /\ session = "menu"
    /\ registration = NoRegistration
    /\ recording = NoRecording

\* A caller's analyze_rhythm
AnalyzeRhythm ==
    /\ call.op = "analyze_rhythm"
    /\ ret = NoCall
    /\ ret' = analyze_rhythm(call.presses, call.gaps, call.password_info)
    /\ UNCHANGED <<enrollment_vars, matcher_vars, driver_vars, ui_vars, call>>

NextAnalyzer == AnalyzeRhythm

SpecAnalyzer == InitAnalyzer /\ [][NextAnalyzer]_vars

-----------------------------------------------------------------------------
(***************************************************************************)
(* OptimizedFeatureExtractor (optimized_feature_extractor.py), for         *)
(* non-empty lists of positive press and non-negative gap durations and    *)
(* the threshold ratio 2.0 that every driver passes.                       *)
(*                                                                         *)
(* A feature is [k |-> "finite", v |-> its value in hundredths] (rounded   *)
(* down, right to within a hundredth), or the result of a float division   *)
(* by zero: [k |-> "inf", ...] for x / 0 and NaN for 0 / 0.  base_unit is  *)
(* carried as base4 = 4 * base_unit, and a normalized array xs / base_unit *)
(* as [num |-> xs, den |-> base4]: its element i is 4 * num[i] / den.      *)
(***************************************************************************)

Finite(v) == [k |-> "finite", v |-> v]
Inf == [k |-> "inf", v |-> 0]

\* The float n / d of two whole numbers, d >= 0
Quotient(n, d) ==
    IF d = 0 THEN (IF n = 0 THEN NaN ELSE Inf)
    ELSE Finite(Floor(100 * n, d))

\* The square root of num / den (num >= 0, den > 0), in hundredths
SqrtOfRatio(num, den) ==
    CHOOSE c \in 0..100000 :
        c * c * den <= 10000 * num /\ 10000 * num < (c + 1) * (c + 1) * den

\* n * sum x^2 - (sum x)^2: n^2 times the variance of xs
Spread(xs) ==
    Len(xs) * SumSeq([i \in 1..Len(xs) |-> xs[i] * xs[i]]) - SumSeq(xs) * SumSeq(xs)

\* 2 * np.median(xs)
Median2(xs) ==
    IF Len(xs) % 2 = 1
    THEN 2 * Sorted(xs, (Len(xs) + 1) \div 2)
    ELSE Sorted(xs, Len(xs) \div 2) + Sorted(xs, Len(xs) \div 2 + 1)

\* 4 * np.percentile(xs, 75)
Percentile75x4(xs) ==
    LET lo == (3 * (Len(xs) - 1)) \div 4
        r  == (3 * (Len(xs) - 1)) % 4
    IN  IF r = 0 THEN 4 * Sorted(xs, lo + 1)
        ELSE 4 * Sorted(xs, lo + 1) + r * (Sorted(xs, lo + 2) - Sorted(xs, lo + 1))

\* _estimate_dot_duration, times 4 (the list is not empty)
_estimate_dot_duration(presses) == Percentile25x4(presses)

\* xs / base_unit, base_unit = base4 / 4
Normalize(xs, base4) == [num |-> xs, den |-> base4]

\* Element i of a normalized array
Element(norm, i) == Quotient(4 * norm.num[i], norm.den)

\* Faulty variant: the positions a short sample lacks are left out.
_extract_position_features_truncating(norm_presses, norm_gaps) ==
    LET n == Len(norm_presses.num)
        first == [i \in 1..Min(4, n) |-> Element(norm_presses, i)]
        last == [j \in 1..Min(4, n) |->
                    Element(norm_presses, n - Min(4, n) + j)]
    IN  first \o last

\* _extract_position_features: the first 4 and the last 4 normalized
\* presses, a slot the sample lacks holding the median.
_extract_position_features(norm_presses, norm_gaps) ==
    LET n == Len(norm_presses.num)
        median_press == Quotient(4 * Median2(norm_presses.num), 2 * norm_presses.den)
        first == [i \in 1..4 |->
                    IF i <= n
                    THEN Element(norm_presses, i)
                    ELSE median_press]
        \* for i in range(-4, 0): slot j is i = j - 5, norm_presses[i] is
        \* element n + i + 1 (counting from 1)
        last == [j \in 1..4 |->
                    IF 5 - j <= n
                    THEN Element(norm_presses, n + j - 4)
                    ELSE median_press]
    IN  first \o last

\* np.std(xs) / np.mean(xs) if len(xs) > 1 and np.mean(xs) > 0 else 0
CvOrZero(xs) ==
    IF Len(xs) > 1 /\ SumSeq(xs) > 0
    THEN Finite(SqrtOfRatio(Spread(xs), SumSeq(xs) * SumSeq(xs)))
    ELSE Finite(0)

\* _extract_morse_features.  avg_dot and avg_dash are fractions of whole
\* numbers: mean(xs) / base_unit = 4 * sum(xs) / (len(xs) * base4).
_extract_morse_features(presses, gaps, base4) ==
    LET dots == Dots(presses)
        dashes == Dashes(presses)
        total_elements == Len(presses)
        dot_ratio == IF total_elements > 0
                     THEN Quotient(Len(dots), total_elements) ELSE Finite(0)
        dash_ratio == IF total_elements > 0
                      THEN Quotient(Len(dashes), total_elements) ELSE Finite(0)
        avg_dot == IF Len(dots) > 0
                   THEN <<4 * SumSeq(dots), Len(dots) * base4>> ELSE <<1, 1>>
        avg_dash == IF Len(dashes) > 0
                    THEN <<4 * SumSeq(dashes), Len(dashes) * base4>> ELSE <<3, 1>>
        dash_dot_ratio == IF avg_dot[1] > 0
                          THEN Quotient(avg_dash[1] * avg_dot[2], avg_dash[2] * avg_dot[1])
                          ELSE Finite(300)
        avg_gap == IF Len(gaps) > 0
                   THEN Quotient(4 * SumSeq(gaps), Len(gaps) * base4) ELSE Finite(100)
    IN  << dot_ratio, dash_ratio,
           Quotient(avg_dot[1], avg_dot[2]), Quotient(avg_dash[1], avg_dash[2]),
           CvOrZero(dots), CvOrZero(dashes), dash_dot_ratio, avg_gap >>

\* _calculate_skewness: mean(((x - mean) / std) ^ 3), which the scale of the
\* data does not change, is m3 / spread ^ 1.5 for
\* m3 = n^2 * sum x^3 - 3 * n * sum x * sum x^2 + 2 * (sum x)^3.
_calculate_skewness(data) ==
    LET xs == data.num
        n == Len(xs)
        total == SumSeq(xs)
        squares == SumSeq([i \in 1..n |-> xs[i] * xs[i]])
        cubes == SumSeq([i \in 1..n |-> xs[i] * xs[i] * xs[i]])
        m3 == n * n * cubes - 3 * n * total * squares + 2 * total * total * total
        spread == Spread(xs)
        size == SqrtOfRatio(m3 * m3, spread * spread * spread)
    IN  IF n < 3 THEN Finite(0)
        ELSE IF spread = 0 THEN Finite(0)
        ELSE Finite(IF m3 < 0 THEN -size ELSE size)

\* np.std(data), data a normalized array
StdOf(data) ==
    Quotient(4 * SqrtOfRatio(Spread(data.num), Len(data.num) * Len(data.num)),
             100 * data.den)

\* np.percentile(data, 75) - np.percentile(data, 25)
IqrOf(data) ==
    Quotient(4 * (Percentile75x4(data.num) - Percentile25x4(data.num)), 4 * data.den)

\* press_mean / gap_mean if gap_mean > 0 else 1.0
PressGapRatio(norm_presses, norm_gaps) ==
    IF SumSeq(norm_gaps.num) > 0
    THEN Quotient(SumSeq(norm_presses.num) * Len(norm_gaps.num),
                  Len(norm_presses.num) * SumSeq(norm_gaps.num))
    ELSE Finite(100)

\* _extract_statistical_features
_extract_statistical_features(norm_presses, norm_gaps) ==
    LET MeanOf(data) == Quotient(4 * SumSeq(data.num), Len(data.num) * data.den)
        MedianOf(data) == Quotient(4 * Median2(data.num), 2 * data.den)
    IN  << MeanOf(norm_presses), StdOf(norm_presses), MedianOf(norm_presses),
           IqrOf(norm_presses), _calculate_skewness(norm_presses),
           MeanOf(norm_gaps), StdOf(norm_gaps), MedianOf(norm_gaps), IqrOf(norm_gaps),
           PressGapRatio(norm_presses, norm_gaps) >>

\* np.polyfit(np.arange(len(ys)), ys, 1)[0]: the least-squares slope over
\* x = 0 .. n - 1, n > 2
Slope(ys) ==
    LET n == Len(ys)
        sum_x == (n * (n - 1)) \div 2
        sum_xx == ((n - 1) * n * (2 * n - 1)) \div 6
        sum_xy == SumSeq([i \in 1..n |-> (i - 1) * ys[i]])
    IN  Quotient(n * sum_xy - sum_x * SumSeq(ys), n * sum_xx - sum_x * sum_x)

\* _extract_temporal_features
_extract_temporal_features(presses, gaps) ==
    LET total_time == SumSeq(presses) + SumSeq(gaps)
        elements_per_second == IF total_time > 0
                               THEN Quotient(Len(presses), total_time) ELSE Finite(0)
        all_timings == presses \o gaps
        std == SqrtOfRatio(Spread(all_timings), Len(all_timings) * Len(all_timings))
        rhythm_stability == Quotient(100, 100 + std)
        mid == Len(presses) \div 2
        first_half == SumSeq(SubSeq(presses, 1, mid))
        second_half == SumSeq(SubSeq(presses, mid + 1, Len(presses)))
        acceleration ==
            IF Len(presses) > 3
            THEN IF first_half > 0
                 THEN Quotient(second_half * mid - first_half * (Len(presses) - mid),
                               (Len(presses) - mid) * first_half)
                 ELSE Finite(0)
            ELSE Finite(0)
        slope == IF Len(presses) > 2 THEN Slope(presses) ELSE Finite(0)
        gap_slope == IF Len(gaps) > 2 THEN Slope(gaps) ELSE Finite(0)
    IN  << Finite(100 * total_time), elements_per_second, rhythm_stability,
           acceleration, slope, gap_slope >>

\* extract, for lists that are not empty (an empty list is first replaced
\* by [0.001])
extract(presses, gaps) ==
    LET base_unit == _estimate_dot_duration(presses)
        norm_presses == Normalize(presses, base_unit)
        norm_gaps == Normalize(gaps, base_unit)
        position_features == _extract_position_features(norm_presses, norm_gaps)
        morse_features == _extract_morse_features(presses, gaps, base_unit)
        statistical_features == _extract_statistical_features(norm_presses, norm_gaps)
        temporal_features == _extract_temporal_features(presses, gaps)
    IN  position_features \o morse_features \o statistical_features \o temporal_features

\* The samples handed to extract: every list of up to MaxPresses presses of
\* 1, 2 or 3 time units, with a few gap lists (a gap may last no time).
PressDurations == {1, 2, 3}
ExtractorPresses == UNION { [1..n -> PressDurations] : n \in 1..MaxPresses }
ExtractorGaps == { <<0>>, <<1, 1>>, <<0, 0, 0>>, <<1, 3, 2, 3>> }

InitExtractor ==
    /\ call \in { [op |-> "extract", presses |-> p, gaps |-> g] :
                    p \in ExtractorPresses, g \in ExtractorGaps }
    /\ ret = NoCall
    /\ threshold = DriverMatcher.threshold
    /\ metric = DriverMatcher.metric
    /\ use_dynamic_threshold = DriverMatcher.use_dynamic_threshold
    /\ min_samples = 3
    /\ max_samples = 5
    /\ samples = <<>>
    /\ qualities = <<>>
    /\ threads = <<>>
    /\ session = "menu"
    /\ registration = NoRegistration
    /\ recording = NoRecording

Extract ==
    /\ call.op = "extract"
    /\ ret = NoCall
    /\ ret' = [op |-> "extract", feature_vector |-> extract(call.presses, call.gaps)]
    /\ UNCHANGED <<call, enrollment_vars, matcher_vars, driver_vars, ui_vars>>

NextExtractor == Extract

SpecExtractor == InitExtractor /\ [][NextExtractor]_vars

-----------------------------------------------------------------------------
(***************************************************************************)
(* The Morse table's functions (morse_codes.py) and the password prompt    *)
(* (main_enhanced.py).  A string is the sequence of its characters.        *)
(***************************************************************************)

\* The keys of the MORSE_CODE literal, in the order they are written
MorseKeys ==
    <<
      "A", "B", "C", "D", "E", "F", "G", "H", "I", "J", "K", "L", "M", "N",
      "O", "P", "Q", "R", "S", "T", "U", "V", "W", "X", "Y", "Z", "0", "1",
      "2", "3", "4", "5", "6", "7", "8", "9", ".", ",", "?", "/", "@", " "
    >>

\* REVERSE_MORSE_CODE = {v: k for k, v in MORSE_CODE.items()}: of the keys
\* that share a pattern, the one written last stays.
REVERSE_MORSE_CODE ==
    [ pattern \in { MORSE_CODE[c] : c \in DOMAIN MORSE_CODE } |->
        LET last == CHOOSE i \in 1..Len(MorseKeys) :
                      /\ MORSE_CODE[MorseKeys[i]] = pattern
                      /\ \A j \in (i + 1)..Len(MorseKeys) :
                            MORSE_CODE[MorseKeys[j]] # pattern
        IN  MorseKeys[last] ]

\* str.upper() of one character
LowerToUpper ==
    "a" :> "A" @@
    "b" :> "B" @@
    "c" :> "C" @@
    "d" :> "D" @@
    "e" :> "E" @@
    "f" :> "F" @@
    "g" :> "G" @@
    "h" :> "H" @@
    "i" :> "I" @@
    "j" :> "J" @@
    "k" :> "K" @@
    "l" :> "L" @@
    "m" :> "M" @@
    "n" :> "N" @@
    "o" :> "O" @@
    "p" :> "P" @@
    "q" :> "Q" @@
    "r" :> "R" @@
    "s" :> "S" @@
    "t" :> "T" @@
    "u" :> "U" @@
    "v" :> "V" @@
    "w" :> "W" @@
    "x" :> "X" @@
    "y" :> "Y" @@
    "z" :> "Z"

Upper(character) ==
    IF character \in DOMAIN LowerToUpper THEN LowerToUpper[character]
    ELSE character

\* MORSE_CODE.get(character.upper())
get_morse_pattern(character) ==
    IF Upper(character) \in DOMAIN MORSE_CODE
    THEN Some(MORSE_CODE[Upper(character)]) ELSE None

\* REVERSE_MORSE_CODE.get(pattern)
get_character_from_morse(pattern) ==
    IF pattern \in DOMAIN REVERSE_MORSE_CODE
    THEN Some(REVERSE_MORSE_CODE[pattern]) ELSE None

\* min(presses), presses not empty
MinOf(presses) ==
    CHOOSE v \in { presses[i] : i \in 1..Len(presses) } :
        \A i \in 1..Len(presses) : v <= presses[i]

\* validate_morse_sequence: durations in whole time units, tolerance in
\* hundredths; the bounds expected * (1 -+ tolerance) are compared exactly.
\* Two empty arguments pass the length test and min([]) raises ValueError.
validate_morse_sequence(presses, expected_pattern, tolerance) ==
    IF Len(presses) # Len(expected_pattern)
    THEN [op |-> "validate_morse_sequence", result |-> FALSE]
    ELSE IF Len(presses) = 0
    THEN Raised("validate_morse_sequence", "ValueError")
    ELSE LET dot_duration == MinOf(presses)
             Expected(element) ==
                 IF element = "." THEN dot_duration ELSE 3 * dot_duration
             Within(i) ==
                 /\ Expected(expected_pattern[i]) * (100 - tolerance) <= 100 * presses[i]
                 /\ 100 * presses[i] <= Expected(expected_pattern[i]) * (100 + tolerance)
         IN  [op |-> "validate_morse_sequence",
              result |-> \A i \in 1..Len(presses) : Within(i)]

\* str.strip(): the text without its leading and trailing spaces
RECURSIVE Strip(_)
Strip(txt) ==
    IF txt = <<>> THEN txt
    ELSE IF Head(txt) = " " THEN Strip(Tail(txt))
    ELSE IF txt[Len(txt)] = " " THEN Strip(SubSeq(txt, 1, Len(txt) - 1))
    ELSE txt

\* str.split(): the maximal runs of characters other than spaces
RECURSIVE Split(_)
Split(txt) ==
    IF txt = <<>> THEN <<>>
    ELSE IF Head(txt) = " " THEN Split(Tail(txt))
    ELSE LET n == CHOOSE k \in 1..Len(txt) :
                    /\ \A i \in 1..k : txt[i] # " "
                    /\ k = Len(txt) \/ txt[k + 1] = " "
         IN  <<SubSeq(txt, 1, n)>> \o Split(SubSeq(txt, n + 1, Len(txt)))

\* Faulty variant: a group the table lacks adds nothing to the decoded text.
Decoded_skipping_unknown(patterns) ==
    LET known == SelectSeq(patterns, LAMBDA p : get_character_from_morse(p) # None)
    IN  [i \in 1..Len(known) |-> get_character_from_morse(known[i])[1]]

\* for p in patterns: decoded += get_character_from_morse(p) or "?"
\* (no key of the table is the empty string, so `or` only replaces None)
Decoded(patterns) ==
    [i \in 1..Len(patterns) |->
        IF get_character_from_morse(patterns[i]) # None
        THEN get_character_from_morse(patterns[i])[1] ELSE "?"]

\* One round of get_morse_password's loop: an empty text is asked for again,
\* and so is a text the user does not confirm; a confirmed one is returned.
get_morse_password(typed, confirm) ==
    LET txt == Strip(typed)
        patterns == Split(txt)
        decoded == Decoded(patterns)
    IN  IF txt = <<>> THEN [op |-> "get_morse_password", returned |-> None]
        ELSE IF Upper(confirm) # "Y"    \* input(...).lower() == 'y'
        THEN [op |-> "get_morse_password", returned |-> None]
        ELSE [op |-> "get_morse_password",
              returned |-> Some([morse_code |-> txt,
                                 decoded |-> decoded,
                                 total_elements |->
                                    SumSeq([i \in 1..Len(patterns) |-> Len(patterns[i])])])]

\* The largest number of elements in a pattern handed to
\* validate_morse_sequence, and the largest number of typed characters.
MaxElements == 3
MaxTyped == 4

Elements == {".", "-"}
Patterns == UNION { [1..n -> Elements] : n \in 0..MaxElements }
Tolerances == {0, 30, 66, 67, 99}
ValidateDurations == {1, 3, 4}

\* validate_morse_sequence on the canonical presses of a pattern, and on
\* arbitrary press lists
ValidateCalls ==
    { [op |-> "validate_morse_sequence",
       presses |-> [i \in 1..Len(p) |-> IF p[i] = "." THEN u ELSE 3 * u],
       expected_pattern |-> p, tolerance |-> t] :
        p \in Patterns \ {<<>>}, u \in DotDurations, t \in Tolerances }
    \cup
    { [op |-> "validate_morse_sequence", presses |-> d,
       expected_pattern |-> p, tolerance |-> t] :
        d \in UNION { [1..n -> ValidateDurations] : n \in 0..MaxElements },
        p \in Patterns, t \in Tolerances }

\* Characters looked up: the table's keys, lower-case letters, and one the
\* table lacks
LookupCalls ==
    { [op |-> "get_morse_pattern", character |-> c] :
        c \in DOMAIN MORSE_CODE \cup DOMAIN LowerToUpper \cup {"#"} }

\* Patterns decoded: the table's, and every short sequence of elements
DecodeCalls ==
    { [op |-> "get_character_from_morse", pattern |-> p] :
        p \in { MORSE_CODE[c] : c \in DOMAIN MORSE_CODE } \cup Patterns }

\* Texts typed at the password prompt, and the answer to "Confirm?"
TypedChars == {".", "-", " ", "x"}
PromptCalls ==
    { [op |-> "get_morse_password", typed |-> t, confirm |-> c] :
        t \in UNION { [1..n -> TypedChars] : n \in 0..MaxTyped }
                \cup { <<".", ".", ".", " ", "-", "-", "-", " ", ".", ".", ".">>,
                       <<"/", " ", ".", ".", "-", "-", ".", ".">> },
        c \in {"y", "Y", "n"} }

InitCodec ==
    /\ call \in ValidateCalls \cup LookupCalls \cup DecodeCalls \cup PromptCalls
    /\ ret = NoCall
    /\ threshold = DriverMatcher.threshold
    /\ metric = DriverMatcher.metric
    /\ use_dynamic_threshold = DriverMatcher.use_dynamic_threshold
    /\ min_samples = 3
    /\ max_samples = 5
    /\ samples = <<>>
    /\ qualities = <<>>
    /\ threads = <<>>
    /\ session = "menu"
    /\ registration = NoRegistration
    /\ recording = NoRecording

ValidateMorseSequence ==
    /\ call.op = "validate_morse_sequence"
    /\ ret = NoCall
    /\ ret' = validate_morse_sequence(call.presses, call.expected_pattern, call.tolerance)
    /\ UNCHANGED <<call, enrollment_vars, matcher_vars, driver_vars, ui_vars>>

GetMorsePattern ==
    /\ call.op = "get_morse_pattern"
    /\ ret = NoCall
    /\ ret' = [op |-> "get_morse_pattern", pattern |-> get_morse_pattern(call.character)]
    /\ UNCHANGED <<call, enrollment_vars, matcher_vars, driver_vars, ui_vars>>

GetCharacterFromMorse ==
    /\ call.op = "get_character_from_morse"
    /\ ret = NoCall
    /\ ret' = [op |-> "get_character_from_morse",
               character |-> get_character_from_morse(call.pattern)]
    /\ UNCHANGED <<call, enrollment_vars, matcher_vars, driver_vars, ui_vars>>

GetMorsePassword ==
    /\ call.op = "get_morse_password"
    /\ ret = NoCall
    /\ ret' = get_morse_password(call.typed, call.confirm)
    /\ UNCHANGED <<call, enrollment_vars, matcher_vars, driver_vars, ui_vars>>

NextCodec ==
    \/ ValidateMorseSequence
    \/ GetMorsePattern
    \/ GetCharacterFromMorse
    \/ GetMorsePassword

SpecCodec == InitCodec /\ [][NextCodec]_vars

-----------------------------------------------------------------------------
(***************************************************************************)
(* The registration drivers: register_new_user (main_enhanced.py) and      *)
(* EnrollmentApp (enrollment_ui.py), from the moment the user name and the *)
(* password are settled.  `registration` holds the driver's locals:        *)
(*   driver           "cli" or "ui"                                        *)
(*   pc               where the driver is                                  *)
(*   password_info    the password being enrolled                          *)
(*   attempt          attempt / self.enrollment_attempt                    *)
(*   shown            the n last displayed as "Attempt n/5" or             *)
(*                    "Sample n/5" (0: nothing displayed yet)              *)
(*   rhythm_score     the score of the sample analyzed last                *)
(*   accepted_scores  the rhythm scores of the accepted samples            *)
(* Saving the profile (Firebase) is outside the model.  A tapped sample    *)
(* has at least two presses, or none.                                      *)
(***************************************************************************)

\* The largest attempt number the model follows.
MaxAttempts == 6

\* Passwords enrolled: X (-..-), with two dots and two dashes, and U (..-)
\* and A (.-), with a single dash.
RegistrationPasswords ==
    { PasswordInfo(<<"X">>), PasswordInfo(<<"U">>), PasswordInfo(<<"A">>) }

\* What the user taps in one attempt: nothing, the password with canonical
\* timing, or the password with one press lasting two dot durations.
TappedPresses(password_info) ==
    {<<>>}
    \cup { CanonicalPresses(password_info, u) : u \in DotDurations }
    \cup { [CanonicalPresses(password_info, 1) EXCEPT ![i] = 2] :
             i \in 1..password_info["total_elements"] }

\* The gaps recorded with them: one time unit between two presses
TappedGaps(presses) == [i \in 1..(Len(presses) - 1) |-> 1]

\* The metrics add reads from a rhythm score, in hundredths rounded down
\* (which changes none of the gate's comparisons with 1.0 and 0.85); the
\* analyzer's scores have no outlier_ratio.
GateMetrics(rhythm_score) ==
    [pattern_accuracy |-> rhythm_score["pattern_accuracy"][1],
     timing_precision |-> rhythm_score["timing_precision"][1],
     tempo_consistency |-> rhythm_score["tempo_consistency"][1]]

\* The feature vector as numbers (hundredths); every value is finite for
\* positive presses.
FeatureValues(feature_vector) ==
    [j \in 1..Len(feature_vector) |-> feature_vector[j].v]

\* enroller = Enrollment(min_samples=3, max_samples=5); accepted_scores = [];
\* attempt = 1 (CLI) or self.enrollment_attempt = 0 (UI)
StartRegistration(driver, password_info) ==
    [driver |-> driver,
     pc |-> IF driver = "cli" THEN "loop" ELSE "next",
     password_info |-> password_info,
     attempt |-> IF driver = "cli" THEN 1 ELSE 0,
     shown |-> 0,
     rhythm_score |-> NoCall,
     accepted_scores |-> <<>>]

\* rhythm_analyzer.analyze_rhythm(presses, gaps, password_info)
RhythmScore(presses) ==
    analyze_rhythm(presses, TappedGaps(presses), registration.password_info)

\* analyze_rhythm, extract and enroller.add on a tapped sample;
\* accepted_scores.append(rhythm_score) if the sample was accepted.
ProcessSample(presses) ==
    LET gaps == TappedGaps(presses)
        rhythm_score == RhythmScore(presses)
        feature_vector == FeatureValues(extract(presses, gaps))
    IN  /\ add(feature_vector, GateMetrics(rhythm_score))
        /\ UNCHANGED recording

AcceptedScores(presses) ==
    IF ret'.status = "accepted"
    THEN Append(registration.accepted_scores, RhythmScore(presses))
    ELSE registration.accepted_scores

\* One pass of register_new_user's `while not enroller.is_complete()` loop.
CliAttempt ==
    /\ registration.pc = "loop"
    /\ ~is_complete
    /\ registration.attempt <= MaxAttempts
    /\ \E presses \in TappedPresses(registration.password_info) :
          IF presses = <<>>
          THEN \* "No input.": continue
               /\ registration' = [registration EXCEPT !.shown = registration.attempt]
               /\ UNCHANGED <<enrollment_vars, matcher_vars, driver_vars, call, ret,
                              recording>>
          ELSE /\ ProcessSample(presses)
               /\ registration' =
                     [registration EXCEPT
                        !.shown = registration.attempt,
                        !.rhythm_score = RhythmScore(presses),
                        !.accepted_scores = AcceptedScores(presses),
                        !.pc = IF is_complete' THEN "build" ELSE "loop",
                        !.attempt = IF is_complete' THEN @ ELSE @ + 1]

\* After the loop: the averages of accepted_scores, then build_profile.
CliBuildProfile ==
    /\ registration.pc = "build"
    /\ call' = [op |-> "build_profile", weights |-> Weights(qualities)]
    /\ ret' = build_profile(samples, qualities)
    /\ registration' = [registration EXCEPT !.pc = "done"]
    /\ UNCHANGED <<enrollment_vars, matcher_vars, driver_vars, recording>>

\* EnrollmentApp.complete_enrollment
complete_enrollment ==
    /\ call' = [op |-> "build_profile", weights |-> Weights(qualities)]
    /\ ret' = build_profile(samples, qualities)
    /\ registration' = [registration EXCEPT !.pc = "done"]

\* EnrollmentApp.record_next_sample: complete the enrollment, or count the
\* attempt, display it and start recording.
record_next_sample ==
    IF is_complete THEN complete_enrollment
    ELSE /\ registration' = [registration EXCEPT
                               !.attempt = @ + 1, !.shown = registration.attempt + 1,
                               !.pc = "recording"]
         /\ UNCHANGED <<call, ret>>

\* record_next_sample, called by record_enrollment_samples or half a second
\* after a processed sample
UiRecordNextSample ==
    /\ registration.pc = "next"
    /\ registration.attempt < MaxAttempts
    /\ record_next_sample
    /\ UNCHANGED <<enrollment_vars, matcher_vars, driver_vars, recording>>

\* finish_recording and process_sample, on <Return>: with no press it warns
\* and calls record_next_sample at once; otherwise it processes the sample
\* and schedules record_next_sample.
UiFinishRecording ==
    /\ registration.pc = "recording"
    /\ \E presses \in TappedPresses(registration.password_info) :
          IF presses = <<>>
          THEN /\ registration.attempt < MaxAttempts
               /\ record_next_sample
               /\ UNCHANGED <<enrollment_vars, matcher_vars, driver_vars, recording>>
          ELSE /\ ProcessSample(presses)
               /\ registration' =
                     [registration EXCEPT
                        !.rhythm_score = RhythmScore(presses),
                        !.accepted_scores = AcceptedScores(presses),
                        !.pc = "next"]

InitRegistration ==
    /\ registration \in { StartRegistration(d, p) :
                            d \in {"cli", "ui"}, p \in RegistrationPasswords }
    /\ recording = NoRecording
    /\ min_samples = 3
    /\ max_samples = 5
    /\ samples = <<>>
    /\ qualities = <<>>
    /\ threshold = DriverMatcher.threshold
    /\ metric = DriverMatcher.metric
    /\ use_dynamic_threshold = DriverMatcher.use_dynamic_threshold
    /\ call = NoCall
    /\ ret = NoCall
    /\ threads = <<>>
    /\ session = "menu"

NextRegistration ==
    \/ CliAttempt
    \/ CliBuildProfile
    \/ UiRecordNextSample
    \/ UiFinishRecording

SpecRegistration == InitRegistration /\ [][NextRegistration]_vars

-----------------------------------------------------------------------------
(***************************************************************************)
(* A tap recording: TapListener (tap_listener.py) and the recording        *)
(* handlers of EnrollmentApp (enrollment_ui.py).  The keyboard delivers a  *)
(* press when the space bar goes down, further presses while it is held    *)
(* (auto-repeat) and a release when it comes up; the space bar may be down *)
(* already when the recording starts.  Times are whole ticks of a clock    *)
(* that advances by one with every event.                                  *)
(***************************************************************************)

\* The events followed in one recording
MaxEvents == 6

\* TapListener.__init__, and the reset in record_next_sample (EnrollmentApp
\* has no gaps list: the field stays empty there).  key_down is the state
\* of the space bar itself, now the clock.
StartRecording(owner, key_down, now) ==
    [pc |-> "recording", owner |-> owner,
     press_times |-> <<>>, release_times |-> <<>>, gaps |-> <<>>,
     space_is_down |-> FALSE, last_release_time |-> None,
     key_down |-> key_down, now |-> now]

\* TapListener.on_press(Key.space) at time `now`
on_press(self, now) ==
    IF self.space_is_down
    THEN self
    ELSE [self EXCEPT
            !.space_is_down = TRUE,
            !.gaps = IF self.last_release_time # None
                        /\ now - self.last_release_time[1] >= 0
                     THEN Append(@, now - self.last_release_time[1])
                     ELSE @,
            !.press_times = Append(@, now)]

\* TapListener.on_release(Key.space) at time `now`
on_release(self, now) ==
    [self EXCEPT !.space_is_down = FALSE,
                 !.release_times = Append(@, now),
                 !.last_release_time = <<now>>]

\* EnrollmentApp.on_record_space_press at time `now`, recording_active
on_record_space_press(self, now) ==
    IF self.space_is_down
    THEN self
    ELSE [self EXCEPT !.space_is_down = TRUE,
                      !.press_times = Append(@, now)]

\* EnrollmentApp.on_record_space_release at time `now`, recording_active
on_record_space_release(self, now) ==
    [self EXCEPT !.space_is_down = FALSE,
                 !.release_times = Append(@, now),
                 !.last_release_time = <<now>>]

\* count = min(len(press_times), len(release_times))
PairCount(self) == Min(Len(self.press_times), Len(self.release_times))

\* The press durations: release_times[i] - press_times[i] for i < count,
\* kept when not negative.
PressDurationsOf(self) ==
    SelectSeq([i \in 1..PairCount(self) |->
                  self.release_times[i] - self.press_times[i]],
              LAMBDA d : d >= 0)

\* finish_recording's gaps: press_times[i] - release_times[i - 1] for
\* 1 <= i < count, kept when not negative.
GapsOf(self) ==
    SelectSeq([i \in 1..(PairCount(self) - 1) |->
                  self.press_times[i + 1] - self.release_times[i]],
              LAMBDA g : g >= 0)

\* TapListener.get_sequences
get_sequences(self) ==
    [op |-> "get_sequences", presses |-> PressDurationsOf(self),
     gaps |-> self.gaps]

\* The handler the owner has bound to a press and to a release
PressHandler(self, now) ==
    IF self.owner = "TapListener" THEN on_press(self, now)
    ELSE on_record_space_press(self, now)

ReleaseHandler(self, now) ==
    IF self.owner = "TapListener" THEN on_release(self, now)
    ELSE on_record_space_release(self, now)

\* The space bar goes down.
SpaceDown ==
    /\ recording.pc = "recording"
    /\ ~recording.key_down
    /\ recording.now < MaxEvents
    /\ recording' = [PressHandler(recording, recording.now + 1) EXCEPT
                        !.key_down = TRUE, !.now = recording.now + 1]
    /\ UNCHANGED <<enrollment_vars, matcher_vars, call, ret, driver_vars, registration>>

\* The space bar is held: the keyboard repeats the press.
SpaceAutoRepeat ==
    /\ recording.pc = "recording"
    /\ recording.key_down
    /\ recording.now < MaxEvents
    /\ recording' = [PressHandler(recording, recording.now + 1) EXCEPT
                        !.now = recording.now + 1]
    /\ UNCHANGED <<enrollment_vars, matcher_vars, call, ret, driver_vars, registration>>

\* The space bar comes up.
SpaceUp ==
    /\ recording.pc = "recording"
    /\ recording.key_down
    /\ recording.now < MaxEvents
    /\ recording' = [ReleaseHandler(recording, recording.now + 1) EXCEPT
                        !.key_down = FALSE, !.now = recording.now + 1]
    /\ UNCHANGED <<enrollment_vars, matcher_vars, call, ret, driver_vars, registration>>

\* ESC ends TapListener.start, and the caller reads get_sequences().
GetSequences ==
    /\ recording.pc = "recording"
    /\ recording.owner = "TapListener"
    /\ call' = [op |-> "get_sequences"]
    /\ ret' = get_sequences(recording)
    /\ recording' = [recording EXCEPT !.pc = "done"]
    /\ UNCHANGED <<enrollment_vars, matcher_vars, driver_vars, registration>>

\* EnrollmentApp.finish_recording, on <Return>, up to its call of
\* process_sample (whose effect on the enrollment is UiFinishRecording's):
\* with count == 0 it warns and record_next_sample starts the recording
\* afresh; otherwise process_sample gets the durations and gaps.
FinishRecording ==
    /\ recording.pc = "recording"
    /\ recording.owner = "EnrollmentApp"
    /\ IF PairCount(recording) = 0
       THEN /\ recording' = StartRecording("EnrollmentApp", recording.key_down,
                                           recording.now)
            /\ UNCHANGED <<call, ret>>
       ELSE /\ call' = [op |-> "process_sample",
                        presses |-> PressDurationsOf(recording),
                        gaps |-> GapsOf(recording)]
            /\ ret' = NoCall
            /\ recording' = [recording EXCEPT !.pc = "done"]
    /\ UNCHANGED <<enrollment_vars, matcher_vars, driver_vars, registration>>

InitRecorder ==
    /\ recording \in { StartRecording(owner, key_down, 0) :
                         owner \in {"TapListener", "EnrollmentApp"},
                         key_down \in BOOLEAN }
    /\ registration = NoRegistration
    /\ min_samples = 3
    /\ max_samples = 5
    /\ samples = <<>>
    /\ qualities = <<>>
    /\ threshold = DriverMatcher.threshold
    /\ metric = DriverMatcher.metric
    /\ use_dynamic_threshold = DriverMatcher.use_dynamic_threshold
    /\ call = NoCall
    /\ ret = NoCall
    /\ threads = <<>>
    /\ session = "menu"

NextRecorder ==
    \/ SpaceDown
    \/ SpaceAutoRepeat
    \/ SpaceUp
    \/ GetSequences
    \/ FinishRecording

SpecRecorder == InitRecorder /\ [][NextRecorder]_vars

-----------------------------------------------------------------------------
(***************************************************************************)
(* Claims about Enrollment, checked under SpecEnrollment                   *)
(***************************************************************************)

\* C1: add returns 'accepted' if and only if pattern_accuracy is 1.0,
\* timing_precision >= 0.85 and outlier_ratio (0.0 when the key is absent)
\* <= 0.25; every other record of metrics is rejected.
C1_AcceptedIffGate ==
    ret.op = "add" =>
        LET m == call.rhythm_metrics
            outlier == IF "outlier_ratio" \in DOMAIN m THEN m.outlier_ratio ELSE 0
            gate == /\ m.pattern_accuracy = 100
                    /\ m.timing_precision >= 85
                    /\ outlier <= 25
        IN  /\ ret.status = "accepted" <=> gate
            /\ ret.status = "rejected" <=> ~gate

\* C1's case: (pattern_accuracy 1.0, timing_precision 0.9, outlier_ratio 0.1)
\* has been added and accepted.
C1_Witness ==
    /\ ret.op = "add"
    /\ call.rhythm_metrics.pattern_accuracy = 100
    /\ call.rhythm_metrics.timing_precision = 90
    /\ "outlier_ratio" \in DOMAIN call.rhythm_metrics
    /\ call.rhythm_metrics.outlier_ratio = 10
    /\ ret.status = "accepted"

\* C2: a record with pattern_accuracy < 1.0 is rejected with the reason
\* "Pattern mismatch", whatever its other values are.
C2_PatternMismatchFirst ==
    (ret.op = "add" /\ call.rhythm_metrics.pattern_accuracy < 100) =>
        /\ ret.status = "rejected"
        /\ ret.rejection_reason = <<"Pattern mismatch">>

\* C2's case: a record that fails all three checks at once has been added.
C2_Witness ==
    /\ ret.op = "add"
    /\ call.rhythm_metrics.pattern_accuracy < 100
    /\ call.rhythm_metrics.timing_precision < 85
    /\ "outlier_ratio" \in DOMAIN call.rhythm_metrics
    /\ call.rhythm_metrics.outlier_ratio > 25
    /\ ret.rejection_reason = <<"Pattern mismatch">>

\* C3: admission is all-or-nothing: samples and qualities always have the
\* same length; a rejected add leaves both unchanged; an accepted add appends
\* the given vector to samples and the reported quality to qualities, and
\* changes no earlier entry.
C3_AllOrNothing ==
    /\ Len(samples) = Len(qualities)
    /\ [][ call'.op = "add" =>
            /\ Len(samples') = Len(qualities')
            /\ ret'.status = "rejected" =>
                  /\ samples' = samples
                  /\ qualities' = qualities
            /\ ret'.status = "accepted" =>
                  /\ samples' = samples \o <<call'.feature_vector>>
                  /\ qualities' = qualities \o <<ret'.quality_score>>
         ]_vars

\* C3's case: a sample was rejected by a session that already held accepted
\* samples, and a sample was accepted after an earlier one.
C3_Witness ==
    /\ ret.op = "add"
    /\ ret.status = "rejected"
    /\ Len(samples) = 2
    /\ samples[1] # samples[2]
    /\ qualities[1] # qualities[2]

\* C4 as claimed: the number of stored samples never exceeds max_samples.
C4_NeverExceedsMax == Len(samples) <= max_samples

\* C4 as amended: an add made while can_accept_more() is true leaves at most
\* max_samples stored samples (add itself does not look at max_samples).
C4_GuardedAddWithinMax ==
    [][ (call'.op = "add" /\ can_accept_more) => Len(samples') <= max_samples ]_vars

\* C4's case: an accepted add has filled the session up to max_samples.
C4_Witness ==
    /\ ret.op = "add"
    /\ ret.status = "accepted"
    /\ Len(samples) = max_samples

\* C14: in a session reached by add calls that holds at least one accepted
\* sample, build_profile uses one weight per accepted sample, equal to that
\* sample's stored quality divided by the sum of the stored qualities; the
\* weights are non-negative and sum to 1; a rejected add changes no weight;
\* and sample_count is the number of accepted samples.
C14_WeightsAreNormalizedQualities ==
    [][ /\ (call'.op = "build_profile" /\ Len(samples) >= 1) =>
              LET w == call'.weights
                  total == SumSeq(qualities)
              IN  /\ Len(w) = Len(samples)
                  /\ total > 0
                  /\ \A i \in 1..Len(w) :
                        /\ w[i][1] = qualities[i]
                        /\ w[i][2] = total
                        /\ w[i][1] >= 0
                  /\ SumSeq([i \in 1..Len(w) |-> w[i][1]]) = total
                  /\ ~HasRaised(ret')
                  /\ ret'.sample_count = Len(samples)
        /\ (call'.op = "add" /\ ret'.status = "rejected") =>
              /\ qualities' = qualities
              /\ Len(samples') = Len(samples)
      ]_vars

\* C14's case: a profile has been built from two accepted samples of
\* different quality, which got different weights.
C14_Witness ==
    /\ call.op = "build_profile"
    /\ Len(samples) = 2
    /\ qualities[1] # qualities[2]
    /\ call.weights[1] # call.weights[2]
    /\ ret.sample_count = 2

\* C15: build_profile on a session with no accepted sample ends in a raised
\* exception instead of a profile, and leaves samples and qualities as they
\* were.
C15_EmptySessionRaises ==
    [][ (call'.op = "build_profile" /\ Len(samples) = 0) =>
           /\ HasRaised(ret')
           /\ DOMAIN ret' = {"op", "raised"}
           /\ samples' = samples
           /\ qualities' = qualities
      ]_vars

\* C15's case: build_profile has been called on a session that holds no
\* sample and has raised.
C15_Witness ==
    /\ call.op = "build_profile"
    /\ samples = <<>>
    /\ qualities = <<>>
    /\ HasRaised(ret)
    /\ ret.raised = "ZeroDivisionError"

\* C21: every add, accepted or rejected, reports quality_score =
\* clamp(0.40*timing_precision + 0.30*tempo_consistency + 0.20*pattern_accuracy
\* + 0.10*(1 - outlier_ratio), 0, 1) (a missing outlier_ratio counting as 0);
\* the value is appended to the stored qualities only when the sample is
\* accepted; samples_collected is the stored count after the call and
\* samples_needed is max(0, min_samples - samples_collected).
C21_AddReportsQuality ==
    [][ call'.op = "add" =>
          LET m == call'.rhythm_metrics
              outlier_ratio == IF "outlier_ratio" \in DOMAIN m
                               THEN m.outlier_ratio ELSE 0
              weighted == 40 * m.timing_precision + 30 * m.tempo_consistency
                            + 20 * m.pattern_accuracy + 10 * (100 - outlier_ratio)
              \* weighted is in 1e-4 units, quality_score in thousandths
              clamped == IF weighted < 0 THEN 0
                         ELSE IF weighted > 10000 THEN 1000 ELSE weighted \div 10
          IN  /\ ret'.quality_score = clamped
              /\ weighted % 10 = 0
              /\ qualities' = IF ret'.status = "accepted"
                              THEN Append(qualities, ret'.quality_score)
                              ELSE qualities
              /\ ret'.samples_collected = Len(samples')
              /\ ret'.samples_needed =
                    (IF min_samples > ret'.samples_collected
                     THEN min_samples - ret'.samples_collected ELSE 0)
      ]_vars

\* C21's case: a rejected add that still reports a quality, in a session
\* that already holds one accepted sample and needs two more.
C21_Witness ==
    /\ ret.op = "add"
    /\ ret.status = "rejected"
    /\ "outlier_ratio" \in DOMAIN call.rhythm_metrics
    /\ ret.quality_score = 4 * call.rhythm_metrics.timing_precision + 180 + 200
                             + (100 - call.rhythm_metrics.outlier_ratio)
    /\ qualities # <<>>
    /\ ret.quality_score # qualities[Len(qualities)]
    /\ ret.samples_collected = 1
    /\ ret.samples_needed = 2

\* C22: is_complete() is true exactly when the accepted count (the count
\* add reports) is at least min_samples, can_accept_more() exactly when it
\* is below max_samples, and a session that is complete stays complete
\* under any further add or build_profile.
C22_CompleteStaysComplete ==
    [][ /\ is_complete => is_complete'
        /\ call'.op = "add" =>
              /\ is_complete' <=> (ret'.samples_collected >= min_samples)
              /\ is_complete' <=> (ret'.samples_needed = 0)
              /\ can_accept_more' <=> (ret'.samples_collected < max_samples)
        /\ call'.op = "build_profile" =>
              /\ is_complete' <=> (Len(call'.weights) >= min_samples)
              /\ can_accept_more' <=> (Len(call'.weights) < max_samples)
      ]_vars

\* C22's case: a complete session that cannot accept more has taken a
\* further accepted sample and then built its profile.
C22_Witness ==
    /\ call.op = "build_profile"
    /\ ~HasRaised(ret)
    /\ is_complete
    /\ ~can_accept_more
    /\ Len(samples) > max_samples

-----------------------------------------------------------------------------
(***************************************************************************)
(* Claims about Matcher, checked under SpecMatcher                         *)
(***************************************************************************)

\* Whether a stored profile has a mean vector under either field name.
HasMean(profile) ==
    "mean" \in DOMAIN profile \/ "mean_vector" \in DOMAIN profile

\* C5: final_decision is True if and only if (euclidean accepted and at
\* least one metric accepted) or at least two of the three metrics accepted,
\* and votes is "k/3" with k the number of accepted metrics.
C5_FinalDecisionAndVotes ==
    ret.op = "authenticate_with_multiple_metrics" =>
        LET e == ret.euclidean.accepted
            k == (IF ret.euclidean.accepted THEN 1 ELSE 0)
                 + (IF ret.manhattan.accepted THEN 1 ELSE 0)
                 + (IF ret.mahalanobis.accepted THEN 1 ELSE 0)
        IN  /\ ret.final_decision <=> ((e /\ k >= 1) \/ k >= 2)
            /\ ret.votes = CASE k = 0 -> "0/3" [] k = 1 -> "1/3"
                             [] k = 2 -> "2/3" [] k = 3 -> "3/3"

\* C5's case: euclidean is the only metric that accepts, and access is
\* granted on its vote alone.
C5_Witness ==
    /\ ret.op = "authenticate_with_multiple_metrics"
    /\ ret.euclidean.accepted
    /\ ~ret.manhattan.accepted
    /\ ~ret.mahalanobis.accepted
    /\ ret.votes = "1/3"
    /\ ret.final_decision

\* C6 as claimed: there are a test vector and a profile with a mean vector
\* for which euclidean rejects and the final decision is True because
\* manhattan and mahalanobis both accept.
C6_EuclideanNotAVeto ==
    \E t \in TestVectors, p \in ProfilesWithMean :
        LET r == authenticate_with_multiple_metrics(Self, t, p)
        IN  /\ ~r.euclidean.accepted
            /\ r.manhattan.accepted
            /\ r.mahalanobis.accepted
            /\ r.final_decision

\* C6 as amended: whenever euclidean rejects, manhattan rejects too (all
\* metrics share one threshold and the manhattan distance is never below the
\* euclidean one), so at most mahalanobis accepts and the final decision is
\* False.
C6_EuclideanRejectionDenies ==
    (ret.op = "authenticate_with_multiple_metrics" /\ ~ret.euclidean.accepted) =>
        /\ ~ret.manhattan.accepted
        /\ ~ret.final_decision

\* C6's case: euclidean rejects, mahalanobis accepts, and access is denied.
C6_Witness ==
    /\ ret.op = "authenticate_with_multiple_metrics"
    /\ ~ret.euclidean.accepted
    /\ ret.mahalanobis.accepted
    /\ ret.votes = "1/3"
    /\ ~ret.final_decision

\* C7 as claimed: every result of authenticate, for any profile, reports an
\* effective threshold >= 3.0.
C7_ThresholdAtLeastFloor ==
    ret.op = "authenticate" => ret.details.threshold >= 300

\* C7 as amended: for a profile that has a mean vector the reported
\* threshold is >= 3.0; for a profile without one it is 0.0.
C7_ThresholdAtLeastFloorWithMean ==
    ret.op = "authenticate" =>
        IF HasMean(call.profile)
        THEN ret.details.threshold >= 300
        ELSE ret.details.threshold = 0

\* C7's case: the stored recommended threshold (1.0) is below the floor, is
\* the one in use, and the reported threshold is 3.0.
C7_Witness ==
    /\ ret.op = "authenticate"
    /\ use_dynamic_threshold
    /\ HasMean(call.profile)
    /\ "recommended_threshold" \in DOMAIN call.profile
    /\ call.profile.recommended_threshold = 10
    /\ ret.details.threshold = 300

\* C8: for a profile with a mean vector the effective threshold is
\* max(base, 2.5) * 1.2, base being the recommended threshold (dynamic mode
\* on and the field present), else the static threshold when not None, else
\* 2.0; and accepted holds iff distance < effective threshold, strictly.
C8_ThresholdAndStrictDecision ==
    (ret.op = "authenticate" /\ HasMean(call.profile)) =>
        LET base == IF use_dynamic_threshold
                       /\ "recommended_threshold" \in DOMAIN call.profile
                    THEN call.profile.recommended_threshold
                    ELSE IF threshold # <<>> THEN threshold[1] ELSE 20
            effective == (IF base >= 25 THEN base ELSE 25) * 12
        IN  /\ ret.details.threshold = effective
            /\ ret.accepted <=> Less(ret.distance, effective)
            /\ Equal(ret.distance, effective) => ~ret.accepted

\* C8's case: a static threshold was supplied, the recommended one is used
\* all the same, and a distance equal to the effective threshold is rejected.
C8_Witness ==
    /\ ret.op = "authenticate"
    /\ threshold # <<>>
    /\ use_dynamic_threshold
    /\ "recommended_threshold" \in DOMAIN call.profile
    /\ HasMean(call.profile)
    /\ ret.details.threshold # EffectiveThreshold(threshold[1])
    /\ Equal(ret.distance, ret.details.threshold)
    /\ ~ret.accepted

\* C9: for a profile with neither 'mean' nor 'mean_vector' every per-metric
\* result has distance 999.0 and accepted False, votes is "0/3" and
\* final_decision is False.
C9_MissingMeanDenied ==
    (ret.op = "authenticate_with_multiple_metrics" /\ ~HasMean(call.profile)) =>
        /\ \A m \in {"euclidean", "manhattan", "mahalanobis"} :
              /\ ret[m].distance = [k |-> "lin", v |-> 99900]
              /\ ~ret[m].accepted
        /\ ret.votes = "0/3"
        /\ ~ret.final_decision

\* C9's case: the multi-metric vote has run on a profile with no mean.
C9_Witness ==
    /\ ret.op = "authenticate_with_multiple_metrics"
    /\ ~HasMean(call.profile)
    /\ "recommended_threshold" \in DOMAIN call.profile

\* C10: every result of authenticate that reports a threshold of 0 reports
\* a confidence of 0.
C10_ZeroThresholdZeroConfidence ==
    (ret.op = "authenticate" /\ ret.details.threshold = 0) =>
        ConfidenceIsZero(ret.details.confidence)

\* C12: the mahalanobis distance equals the euclidean distance for the same
\* test vector and profile whenever the profile has no cov_matrix, the
\* cov_matrix has another dimension than the test vector, or the regularized
\* matrix cannot be inverted; each of these cases returns a distance.
C12_MahalanobisFallsBackToEuclidean ==
    LET p == call.profile
        t == call.test_vector
        no_matrix == "cov_matrix" \notin DOMAIN p
        mismatch  == ~no_matrix /\ Len(p.cov_matrix) # Len(t)
        singular  == ~no_matrix /\ ~mismatch
                     /\ \E i \in 1..Len(p.cov_matrix) : p.cov_matrix[i][i] = -1
        mean == IF "mean" \in DOMAIN p THEN p.mean ELSE p.mean_vector
        squares == SumSeq([i \in 1..Len(t) |-> (t[i] - mean[i]) * (t[i] - mean[i])])
    IN  /\ (ret.op = "authenticate_with_multiple_metrics" /\ HasMean(p)
            /\ (no_matrix \/ mismatch \/ singular)) =>
               /\ ret.mahalanobis.distance = ret.euclidean.distance
               /\ ret.mahalanobis.distance.k = "sqrt"
        /\ (ret.op = "authenticate" /\ HasMean(p) /\ metric = "mahalanobis"
            /\ (no_matrix \/ mismatch \/ singular)) =>
               ret.distance = [k |-> "sqrt", v |-> 100 * squares]

\* C12's case: the regularized matrix is singular, the vote has run, and
\* the mahalanobis entry holds the (non-zero) euclidean distance 3.0.
C12_Witness ==
    /\ ret.op = "authenticate_with_multiple_metrics"
    /\ "cov_matrix" \in DOMAIN call.profile
    /\ call.profile.cov_matrix = DiagonalMatrix(-1)
    /\ call.test_vector = <<18, 24>>
    /\ ret.mahalanobis.distance = [k |-> "sqrt", v |-> 90000]
    /\ ret.manhattan.distance = [k |-> "lin", v |-> 420]

\* C28: for a profile with a mean vector and no usable covariance matrix
\* (none, one of another dimension, or one that is singular once
\* regularized) the final decision of authenticate_with_multiple_metrics is
\* the euclidean metric's accepted flag, and the tally is 0/3, 2/3 or 3/3,
\* never 1/3.
C28_DecisionIsEuclideanWithoutCovariance ==
    LET p == call.profile
        t == call.test_vector
        no_matrix == "cov_matrix" \notin DOMAIN p
        mismatch  == ~no_matrix /\ Len(p.cov_matrix) # Len(t)
        singular  == ~no_matrix /\ ~mismatch
                     /\ \E i \in 1..Len(p.cov_matrix) : p.cov_matrix[i][i] = -1
    IN  (ret.op = "authenticate_with_multiple_metrics" /\ HasMean(p)
         /\ (no_matrix \/ mismatch \/ singular)) =>
            /\ ret.final_decision <=> ret.euclidean.accepted
            /\ ret.mahalanobis.accepted <=> ret.euclidean.accepted
            /\ ret.votes \in {"0/3", "2/3", "3/3"}

\* C28's case: a profile as Enrollment.build_profile makes it (mean, no
\* covariance matrix); euclidean and mahalanobis accept, manhattan rejects,
\* and access is granted 2/3.
C28_Witness ==
    /\ ret.op = "authenticate_with_multiple_metrics"
    /\ "mean" \in DOMAIN call.profile
    /\ "cov_matrix" \notin DOMAIN call.profile
    /\ ret.euclidean.accepted
    /\ ~ret.manhattan.accepted
    /\ ret.mahalanobis.accepted
    /\ ret.votes = "2/3"
    /\ ret.final_decision

-----------------------------------------------------------------------------
(***************************************************************************)
(* Claims about calls that interleave, checked under SpecThreads           *)
(***************************************************************************)

\* C11: when two calls of authenticate_with_multiple_metrics interleave on
\* one Matcher, each call's entry for a metric is computed with that very
\* metric, each call returns what it returns when run alone, and once both
\* have returned the matcher's metric field holds its original value.
C11_InterleavedCallsArePure ==
    /\ \A t \in ThreadIds :
          /\ \A m \in DOMAIN threads[t].computed_with :
                threads[t].computed_with[m] \in {"", m}
          /\ threads[t].pc = "done" =>
                threads[t].out =
                    Some(authenticate_with_multiple_metrics(
                            DriverMatcher, threads[t].test_vector,
                            threads[t].raw_profile))
    /\ (\A t \in ThreadIds : threads[t].pc = "done") =>
          metric = DriverMatcher.metric

-----------------------------------------------------------------------------
(***************************************************************************)
(* Claims about the login session, checked under SpecLogin                 *)
(***************************************************************************)

\* C13: for every stored profile that has a mean vector, of whatever length,
\* authenticate_with_multiple_metrics ends with a result that carries a
\* boolean final_decision, and the login session goes on (no error escapes
\* and terminates it).
C13_LoginEndsWithDecision ==
    (call.op = "authenticate_with_multiple_metrics" /\ HasMean(call.profile)) =>
        /\ ~HasRaised(ret)
        /\ ret.final_decision \in BOOLEAN
        /\ session = "menu"

-----------------------------------------------------------------------------
(***************************************************************************)
(* Claims about a vote on a stored profile, checked under SpecVote         *)
(***************************************************************************)

\* C29: whenever authenticate_with_multiple_metrics ends, by returning or by
\* raising, the Matcher's metric, threshold and use_dynamic_threshold are
\* what they were before the call, and the caller's profile dict has the
\* keys and values it had before.
C29_MatcherAndProfileRestored ==
    [][call'.op = "authenticate_with_multiple_metrics" =>
          /\ metric' = metric
          /\ threshold' = threshold
          /\ use_dynamic_threshold' = use_dynamic_threshold
          /\ call'.profile_after = call'.profile]_vars

-----------------------------------------------------------------------------
(***************************************************************************)
(* Claims about RhythmAnalyzer, checked under SpecAnalyzer                 *)
(***************************************************************************)

\* Whether the call's presses tap its password with canonical timing: as
\* many presses as the pattern has elements, every dot one duration u > 0,
\* every dash 3u, in the pattern's order.
IsCanonicalSample ==
    LET morse_pattern == Flatten(call.password_info.morse_code)
    IN  /\ Len(morse_pattern) >= 1
        /\ Len(call.presses) = Len(morse_pattern)
        /\ \E u \in DotDurations :
              \A i \in 1..Len(morse_pattern) :
                  call.presses[i] = IF morse_pattern[i] = "." THEN u ELSE 3 * u

\* C16: a sample that taps a pattern of table characters with canonical
\* timing receives pattern_accuracy 1.0 from analyze_rhythm.
C16_CanonicalSampleIsPerfect ==
    (ret.op = "analyze_rhythm" /\ IsCanonicalSample) =>
        ret.pattern_accuracy = <<100, 100>>

\* Whether all of the call's presses fall in one class of the analyzer's
\* classification (no press is a dot, or no press is a dash).
AllPressesInOneClass ==
    \/ \A i \in 1..Len(call.presses) : 2 * call.presses[i] < Percentile25x4(call.presses)
    \/ \A i \in 1..Len(call.presses) : 2 * call.presses[i] >= Percentile25x4(call.presses)

AllPressesPositive == \A i \in 1..Len(call.presses) : call.presses[i] > 0

\* C17 as claimed: for every non-empty list of (positive) presses that all
\* fall in one class, of any length >= 1, dot_dash_separation is 0.7 exactly.
C17_OneClassSeparationAnyLength ==
    (ret.op = "analyze_rhythm" /\ Len(call.presses) >= 1
     /\ AllPressesPositive /\ AllPressesInOneClass) =>
        ret.dot_dash_separation = <<70, 70>>

\* C17 as amended: for a list of presses that all fall in one class,
\* dot_dash_separation is 0.7 exactly when the list has at least 3 presses
\* and its 25th-percentile duration is positive (as it is for positive
\* presses), and 0.5 when the list has 1 or 2 presses.
C17_OneClassSeparation ==
    (ret.op = "analyze_rhythm" /\ Len(call.presses) >= 1 /\ AllPressesInOneClass) =>
        /\ Len(call.presses) <= 2 => ret.dot_dash_separation = <<50, 50>>
        /\ (Len(call.presses) >= 3 /\ Percentile25x4(call.presses) > 0) =>
              ret.dot_dash_separation = <<70, 70>>
        /\ (Len(call.presses) >= 3 /\ AllPressesPositive) =>
              ret.dot_dash_separation = <<70, 70>>

\* C17's case: three equal presses have been analysed and score 0.7.
C17_Witness ==
    /\ ret.op = "analyze_rhythm"
    /\ call.presses = <<3, 3, 3>>
    /\ AllPressesInOneClass
    /\ ret.dot_dash_separation = <<70, 70>>

\* C18: for lists of non-negative press and gap durations and any expected
\* pattern, each of the five sub-scores and overall_score lies in [0, 1].
C18_ScoresInUnitInterval ==
    ret.op = "analyze_rhythm" =>
        /\ \A name \in {"tempo_consistency", "pattern_accuracy", "timing_precision",
                        "rhythm_stability", "dot_dash_separation"} :
              /\ 0 <= ret[name][1]
              /\ ret[name][1] <= ret[name][2]
              /\ ret[name][2] <= 100
        /\ 0 <= ret.overall_score[1]
        /\ ret.overall_score[1] <= ret.overall_score[2]
        /\ ret.overall_score[2] <= 10000

\* C18's case: the halves' means differ by more than 40% and the dashes are
\* far more than 3 times the dots, so both formulas fall below 0 and are
\* clamped; the pattern does not match either.
C18_Witness ==
    /\ ret.op = "analyze_rhythm"
    /\ call.presses = <<1, 1, 8, 8, 8>>
    /\ Len(call.gaps) > 0
    /\ ret.rhythm_stability = <<0, 0>>
    /\ ret.dot_dash_separation = <<0, 0>>
    /\ ret.overall_score[1] > 0
    /\ ret.overall_score[2] < 10000

\* C19: analyze_rhythm with an empty press list returns, for any gaps and
\* any expected pattern, overall_score and all five sub-scores exactly 0.0,
\* and does not raise.
C19_EmptyPressesScoreZero ==
    (ret.op = "analyze_rhythm" /\ call.presses = <<>>) =>
        /\ ~HasRaised(ret)
        /\ \A name \in {"overall_score", "tempo_consistency", "pattern_accuracy",
                        "timing_precision", "rhythm_stability",
                        "dot_dash_separation"} :
              ret[name] = <<0, 0>>

\* C19's case: no press, some gaps, and a password that expects presses.
C19_Witness ==
    /\ ret.op = "analyze_rhythm"
    /\ call.presses = <<>>
    /\ Len(call.gaps) > 0
    /\ call.password_info.total_elements > 0
    /\ ret.overall_score = <<0, 0>>

-----------------------------------------------------------------------------
(***************************************************************************)
(* Claims about OptimizedFeatureExtractor, checked under SpecExtractor     *)
(***************************************************************************)

\* C20: for non-empty press and gap lists of any lengths, fewer than 4
\* presses included, extract returns exactly 32 values, all finite (neither
\* infinite nor NaN), laid out as position (1-8), rhythm (9-16), statistical
\* (17-26) and temporal (27-32); the position block holds the first four and
\* the last four normalized presses, and a slot the sample lacks holds the
\* median of the normalized presses: the block is never shorter.
C20_ExtractReturns32FiniteValues ==
    ret.op = "extract" =>
        LET v == ret.feature_vector
            presses == call.presses
            gaps == call.gaps
            n == Len(presses)
            base4 == Percentile25x4(presses)
            Press(i) == Quotient(4 * presses[i], base4)
            median == Quotient(4 * Median2(presses), 2 * base4)
        IN  /\ Len(v) = 32
            /\ \A i \in 1..Len(v) : v[i].k = "finite"
            /\ \A i \in 1..4 : v[i] = IF i <= n THEN Press(i) ELSE median
            /\ \A j \in 1..4 : v[4 + j] = IF 5 - j <= n THEN Press(n + j - 4) ELSE median
            \* the first and last member of each later block
            /\ v[9] = Quotient(Len(Dots(presses)), n)
            /\ v[16] = Quotient(4 * SumSeq(gaps), Len(gaps) * base4)
            /\ v[17] = Quotient(4 * SumSeq(presses), n * base4)
            /\ v[26] = PressGapRatio(Normalize(presses, base4), Normalize(gaps, base4))
            /\ v[27] = Finite(100 * (SumSeq(presses) + SumSeq(gaps)))
            /\ v[32] = IF Len(gaps) > 2 THEN Slope(gaps) ELSE Finite(0)

\* C20's case: three presses (a dot, a dash, a dot) and gaps that take no
\* time: slot 4 and slot 5 are padded with the median, which differs from
\* the dash in slots 2 and 7, and the press/gap ratio falls back to 1.0.
C20_Witness ==
    /\ ret.op = "extract"
    /\ call.presses = <<1, 3, 1>>
    /\ call.gaps = <<0, 0, 0>>
    /\ Len(ret.feature_vector) = 32
    /\ ret.feature_vector[4] = Finite(100)
    /\ ret.feature_vector[5] = Finite(100)
    /\ ret.feature_vector[2] = Finite(300)
    /\ ret.feature_vector[7] = Finite(300)
    /\ ret.feature_vector[26] = Finite(100)

-----------------------------------------------------------------------------
(***************************************************************************)
(* Claims about the Morse table's functions, checked under SpecCodec       *)
(***************************************************************************)

\* The presses are the pattern's canonical timing for some dot duration u:
\* each dot lasts u and each dash 3 * u.
IsCanonicalTiming(presses, expected_pattern) ==
    /\ Len(presses) = Len(expected_pattern)
    /\ \E u \in DotDurations :
          \A i \in 1..Len(presses) :
              presses[i] = IF expected_pattern[i] = "." THEN u ELSE 3 * u

\* C23: for a non-empty expected pattern and a tolerance in [0, 1),
\* validate_morse_sequence returns True for presses with the pattern's
\* canonical timing, and False for presses whose count differs from the
\* pattern's length.
C23_CanonicalTimingIsValid ==
    (ret.op = "validate_morse_sequence" /\ call.expected_pattern # <<>>) =>
        /\ IsCanonicalTiming(call.presses, call.expected_pattern) =>
              (~HasRaised(ret) /\ ret.result = TRUE)
        /\ Len(call.presses) # Len(call.expected_pattern) =>
              (~HasRaised(ret) /\ ret.result = FALSE)

\* C24: decoding inverts encoding on the table: for every character c of
\* MORSE_CODE, get_character_from_morse(get_morse_pattern(c)) = c, and no
\* two characters share a pattern; a decoded pattern is the pattern of the
\* character returned; and the password prompt decodes any typed text to
\* exactly one character per group, '?' for a group the table lacks,
\* without raising.
C24_DecodeInvertsEncode ==
    /\ (ret.op = "get_morse_pattern" /\ call.character \in DOMAIN MORSE_CODE) =>
          /\ ret.pattern = Some(MORSE_CODE[call.character])
          /\ get_character_from_morse(ret.pattern[1]) = Some(call.character)
          /\ \A c \in DOMAIN MORSE_CODE :
                MORSE_CODE[c] = ret.pattern[1] => c = call.character
    /\ ret.op = "get_character_from_morse" =>
          IF \E c \in DOMAIN MORSE_CODE : MORSE_CODE[c] = call.pattern
          THEN /\ ret.character # None
               /\ MORSE_CODE[ret.character[1]] = call.pattern
          ELSE ret.character = None
    /\ (ret.op = "get_morse_password" /\ ret # NoCall) =>
          /\ ~HasRaised(ret)
          /\ ret.returned # None =>
                LET groups == Split(call.typed)
                    decoded == ret.returned[1].decoded
                IN  /\ Len(decoded) = Len(groups)
                    /\ \A i \in 1..Len(groups) :
                          IF \E c \in DOMAIN MORSE_CODE : MORSE_CODE[c] = groups[i]
                          THEN MORSE_CODE[decoded[i]] = groups[i]
                          ELSE decoded[i] = "?"

\* C24's case: the prompt has decoded "x -" to '?' and T, and "... --- ..."
\* would decode to SOS.
C24_Witness ==
    /\ ret.op = "get_morse_password"
    /\ call.typed = <<" ", "x", " ", "-">>
    /\ ret.returned # None
    /\ ret.returned[1].morse_code = <<"x", " ", "-">>
    /\ ret.returned[1].decoded = <<"?", "T">>
    /\ ret.returned[1].total_elements = 2
    /\ Decoded(Split(<<".", ".", ".", " ", "-", "-", "-", " ", ".", ".", ".">>))
          = <<"S", "O", "S">>

-----------------------------------------------------------------------------
(***************************************************************************)
(* Claims about the registration drivers, checked under SpecRegistration   *)
(***************************************************************************)

\* C25: the attempt number displayed as "Attempt n/max_samples" (CLI) or
\* "Sample n/max_samples" (UI) never exceeds max_samples, whatever mix of
\* accepted and rejected samples the user produces.
C25_AttemptsWithinMax == registration.shown <= max_samples

\* C26: in both registration drivers build_profile is called only when the
\* enroller's is_complete() is true: it sees at least min_samples (3)
\* accepted samples, does not raise, and the driver's accepted_scores has as
\* many entries as the enroller has samples.
C26_BuildProfileOnlyWhenComplete ==
    [][ call'.op = "build_profile" =>
          /\ Len(samples) >= min_samples
          /\ min_samples = 3
          /\ Len(call'.weights) = Len(samples)
          /\ ~HasRaised(ret')
          /\ ret'.sample_count >= 3
          /\ Len(registration.accepted_scores) = Len(samples)
          /\ Len(registration'.accepted_scores) = Len(samples')
      ]_vars

\* C26's case: the window has built the profile of three accepted samples
\* after more than three attempts.
C26_Witness ==
    /\ call.op = "build_profile"
    /\ registration.driver = "ui"
    /\ registration.pc = "done"
    /\ registration.attempt > 3
    /\ Len(samples) = 3
    /\ Len(registration.accepted_scores) = 3
    /\ ret.sample_count = 3

\* The expected pattern has fewer than two dots or fewer than two dashes.
IsSparse(password_info) ==
    \/ CountOf(Flatten(password_info["morse_code"]), ".") < 2
    \/ CountOf(Flatten(password_info["morse_code"]), "-") < 2

\* C27: for a password whose pattern has fewer than two dots or fewer than
\* two dashes, every analyzed sample with pattern_accuracy 1.0 has
\* timing_precision at most 0.75; add rejects every analyzer-scored sample,
\* and the registration never reaches is_complete() nor builds a profile.
C27_SparsePasswordNeverEnrolls ==
    [][ IsSparse(registration.password_info) =>
          /\ call'.op = "add" =>
                /\ registration'.rhythm_score.pattern_accuracy = <<100, 100>> =>
                      registration'.rhythm_score.timing_precision[2] <= 75
                /\ call'.rhythm_metrics = GateMetrics(registration'.rhythm_score)
                /\ ret'.status = "rejected"
                /\ ret'.samples_collected = 0
          /\ ~is_complete'
          /\ registration'.pc \notin {"build", "done"}
          /\ call'.op # "build_profile"
      ]_vars

\* C27's case: the password U (..-) tapped with canonical timing, for the
\* sixth time: the pattern matches, the lone dash holds timing_precision at
\* 0.75, and the sample is rejected for its timing.
C27_Witness ==
    /\ IsSparse(registration.password_info)
    /\ registration.password_info.total_elements = 3
    /\ ret.op = "add"
    /\ registration.rhythm_score.pattern_accuracy = <<100, 100>>
    /\ registration.rhythm_score.timing_precision = <<75, 75>>
    /\ ret.status = "rejected"
    /\ ret.rejection_reason = Some("Timing precision too low")
    /\ registration.shown > 5
    /\ samples = <<>>

-----------------------------------------------------------------------------
(***************************************************************************)
(* Claims about a tap recording, checked under SpecRecorder                *)
(***************************************************************************)

\* C30: whatever presses, auto-repeat presses and releases a recording has
\* received, len(release_times) <= len(press_times) <= len(release_times) + 1.
C30_ReleasesPairedWithPresses ==
    recording.pc # "none" =>
        /\ Len(recording.release_times) <= Len(recording.press_times)
        /\ Len(recording.press_times) <= Len(recording.release_times) + 1

=============================================================================
